---- MODULE Spec2Model ----
(***************************************************************************)
(* The rotating log writer of app-web (class Logger): an in-memory buffer  *)
(* of formatted lines, a size- and timer-triggered flush that appends the  *)
(* buffer to the day-named log file, a size-based rotation that renames    *)
(* the day-named file to a timestamp-suffixed name, and a retention pass   *)
(* that deletes all but the newest maxFiles log files.                     *)
(*                                                                         *)
(* The file system is part of the state.  Every synchronous fs call that   *)
(* can throw is a nondeterministic choice between its success and its      *)
(* failure; the handlers' try/catch blocks decide what a failure leaves    *)
(* behind.  Each handler is one atomic action (the runtime is single       *)
(* threaded and every fs call is synchronous).                             *)
(*                                                                         *)
(* The second part is UserService, the authorization facade in front of a  *)
(* data source of user records: createUser, updateUser, deleteUser and     *)
(* getUsersByRole are asynchronous and give up control at every await, so  *)
(* two calls interleave at the calls of the data source.                   *)
(*                                                                         *)
(* The third part is the auth routes of the admin app (login, profile,     *)
(* logout): each request is one step from the cookies before it and the    *)
(* answer of the backend to the cookies after it and the response.         *)
(***************************************************************************)
EXTENDS Integers, Sequences, FiniteSets, TLC

\* ---------------------------------------------------------------- bounds
\* Number of log calls that reach the buffer over a behaviour.
MaxLogs == 3
\* Last instant of the clock.
MaxTime == 3
\* Clock instants per calendar day (the date part of toISOString()).
TicksPerDay == 2

\* ------------------------------------------------------------- constants
MB == 1024 * 1024
MAX_FILE_SIZE == 10 * MB
MAX_FILES_TO_KEEP == 5
BATCH_SIZE == 100
FLUSH_INTERVAL == 5000
LOG_DIR_NAME == "logs"

ERROR == 0
WARN == 1
INFO == 2
DEBUG == 3
LogLevel == {ERROR, WARN, INFO, DEBUG}

\* Inputs the callers pass to the setters and to the log methods.
LogDirs == {LOG_DIR_NAME}
FileSizesMB == {2}
FileCounts == {0, 1}
BatchSizes == {1, 2}
\* Byte length of a formatted line (message, data block, stack, newline).
LineSizes == {MB}
Intervals == {2000}
\* The directories setLogDir is given when the caller moves the logs.
CustomLogDirs == {LOG_DIR_NAME, "/custom/log/path"}
\* data argument of a log method: absent (undefined), or the object {a: 1}.
NoData == [present |-> FALSE, a |-> 0]
\* context and data arguments: a message alone; a message with the context
\* "X" and the data {a: 1}.
MessageOnly == {[context |-> "", data |-> NoData]}
Entries == MessageOnly \cup {[context |-> "X", data |-> [present |-> TRUE, a |-> 1]]}
\* date argument of getLogs: absent (-1), or the day YYYY-MM-DD.
NoDate == -1
Dates == {NoDate, 0}

\* ------------------------------------------------------------ file names
\* null: no current log file.
NoFile == [dir |-> "", name |-> [kind |-> "none", stamp |-> 0]]

\* app-web-YYYY-MM-DD.log for the day of instant t.
getLogFileName(t) == [kind |-> "day", stamp |-> t \div TicksPerDay]

\* app-web-<ISO timestamp with : and . replaced by ->.log
rotatedFileName(t) == [kind |-> "rot", stamp |-> t]

\* path.join(dir, name)
Join(dir, name) == [dir |-> dir, name |-> name]

\* file.startsWith("app-web-") && file.endsWith(".log")
IsLogFileName(name) == name.kind \in {"day", "rot"}

\* ------------------------------------------------------------ formatting
\* formatMessage: `[ts] LEVEL [context] message`; the part that depends on
\* the context: "[context]" or "" when the context is absent or empty.
formatMessage(entry) ==
    IF entry.context # "" THEN "[" \o entry.context \o "]" ELSE ""

\* JSON.stringify(data, null, 2) of the object {a: <n>}.
JSONstringify(data) == "{\n  \"a\": " \o ToString(data.a) \o "\n}"

\* The line writeToFile builds from an entry: the formatted message, the
\* Data block when entry.data is truthy, the newline.  id and size stand for
\* the timestamp and message text and for the byte length.
fullMessage(entry) ==
    [id |-> entry.id, size |-> entry.size,
     contextStr |-> formatMessage(entry),
     dataStr |-> IF entry.data.present
                 THEN "\n  Data: " \o JSONstringify(entry.data) ELSE ""]

\* ----------------------------------------------------------- file system
\* logs.join(""): the text of a sequence of lines; its byte length.
RECURSIVE Size(_)
Size(lines) == IF lines = <<>> THEN 0 ELSE Head(lines).size + Size(Tail(lines))

\* fs.existsSync
existsSync(fls, p) == p \in DOMAIN fls

\* fs.statSync(p).size
statSize(fls, p) == Size(fls[p].content)

\* appendFileSync as writeFileSync: the file is replaced, not appended to.
appendFileSync_truncate(fls, p, lines, t) ==
    [q \in DOMAIN fls \cup {p} |->
        IF q = p THEN [content |-> lines, mtime |-> t] ELSE fls[q]]

\* fs.appendFileSync: creates the file when it is absent; sets its mtime.
appendFileSync(fls, p, lines, t) ==
    [q \in DOMAIN fls \cup {p} |->
        IF q = p
        THEN [content |-> (IF p \in DOMAIN fls THEN fls[p].content ELSE <<>>) \o lines,
              mtime |-> t]
        ELSE fls[q]]

\* fs.renameSync: replaces an existing destination; keeps content and mtime.
renameSync(fls, from, to) ==
    [q \in (DOMAIN fls \ {from}) \cup {to} |-> IF q = to THEN fls[from] ELSE fls[q]]

\* fs.unlinkSync over a set of paths.
unlinkAll(fls, gone) == [q \in DOMAIN fls \ gone |-> fls[q]]

\* ------------------------------------------------- what a handler did
\* History of the handler that ran last, reset when the next one starts:
\* which kind of handler it was ("init": the constructor or setLogDir, "log",
\* "flush": a flush by the timer or a signal, "exit", "destroy", "set": a
\* setter that only assigns, "get": getLogs or getLogFiles), which steps it
\* reached and which fs calls threw.  above: the call was made with a level
\* numerically above config.level; raised: an exception left the handler;
\* ret: what a getter returned; given: the context and data arguments of a
\* log call; date: the date argument of getLogs.
\* wasOversized / oversized: the write target's size was >= maxFileSize before
\* / after the append.  listed: how many log files cleanup found; deletedMax:
\* the newest mtime among those it deleted; deletedTarget: it deleted the file
\* currentLogFile named at that moment; unlinkFailures: how many unlinkSync
\* calls threw.
NoReturn == [kind |-> "none", text |-> <<>>, list |-> <<>>]

NoEvent ==
    [op |-> "none", above |-> FALSE, raised |-> FALSE, ret |-> NoReturn,
     given |-> [context |-> "", data |-> NoData], date |-> NoDate,
     printed |-> FALSE, accepted |-> FALSE,
     appended |-> FALSE, appendFailed |-> FALSE,
     wasOversized |-> FALSE, oversized |-> FALSE, flushStatFailed |-> FALSE,
     rotateCalled |-> FALSE, rotateStatFailed |-> FALSE,
     renames |-> 0, renameFailed |-> FALSE,
     cleanups |-> 0, cleanupFailed |-> FALSE, unlinkFailed |-> FALSE,
     unlinkFailures |-> 0,
     listed |-> 0, deletedMax |-> -1, deletedTarget |-> FALSE,
     initFailed |-> FALSE, readFailed |-> FALSE]

\* ------------------------------------------------------------- handlers
\* The handlers below are relations: each maps the logger's fields and the
\* file system (a record w: fs, cfg, cur, buf, dirs, files, ev) to the set of
\* results the handler can leave, one for every way its fs calls can go.

\* The log files of a directory, as cleanupOldLogs filters them.
LogFilesIn(fls, dir) == {p \in DOMAIN fls : p.dir = dir /\ IsLogFileName(p.name)}

\* KeepSets with the comparator reversed (a.time - b.time): oldest first.
KeepSets_oldest(fls, cand, n) ==
    {K \in SUBSET cand :
        /\ Cardinality(K) = n
        /\ \A k \in K, d \in cand \ K : fls[k].mtime <= fls[d].mtime}

\* The first n files of logFiles.sort((a, b) => b.time - a.time): newest
\* first; files of equal mtime keep the order readdirSync gave, which the
\* operating system chooses.
KeepSets(fls, cand, n) ==
    {K \in SUBSET cand :
        /\ Cardinality(K) = n
        /\ \A k \in K, d \in cand \ K : fls[k].mtime >= fls[d].mtime}

\* The newest mtime among a set of files; -1 for none.
MaxMtime(fls, ps) ==
    IF ps = {} THEN -1 ELSE CHOOSE m \in {fls[p].mtime : p \in ps} :
                                \A p \in ps : fls[p].mtime <= m

\* cleanupOldLogs with one try around the whole forEach: the first unlinkSync
\* that throws ends the loop, the files after it stay.
cleanupOldLogs_abortOnFail(w) ==
    IF ~w.fs THEN {w}
    ELSE
        LET cand == LogFilesIn(w.files, w.cfg.logDir)
            ran == [w EXCEPT !.ev.cleanups = @ + 1, !.ev.listed = Cardinality(cand)]
        IN  {[ran EXCEPT !.ev.cleanupFailed = TRUE]}
            \cup
            IF Cardinality(cand) > w.cfg.maxFiles
            THEN UNION {
                    {[ran EXCEPT !.files = unlinkAll(@, cand \ K),
                                 !.ev.deletedMax = MaxMtime(w.files, cand \ K),
                                 !.ev.deletedTarget = (w.cur \in cand \ K)]}
                    \cup
                    {[ran EXCEPT !.files = unlinkAll(@, D),
                                 !.ev.unlinkFailed = TRUE,
                                 !.ev.unlinkFailures = 1,
                                 !.ev.deletedMax = MaxMtime(w.files, D),
                                 !.ev.deletedTarget = (w.cur \in D)]
                        : D \in {X \in SUBSET (cand \ K) : X # cand \ K}}
                    : K \in KeepSets(w.files, cand, w.cfg.maxFiles)}
            ELSE {ran}

cleanupOldLogs(w) ==
    IF ~w.fs THEN {w}
    ELSE
        LET cand == LogFilesIn(w.files, w.cfg.logDir)
            ran == [w EXCEPT !.ev.cleanups = @ + 1, !.ev.listed = Cardinality(cand)]
        IN  \* readdirSync or statSync threw: the outer catch, nothing deleted
            {[ran EXCEPT !.ev.cleanupFailed = TRUE]}
            \cup
            IF Cardinality(cand) > w.cfg.maxFiles
            THEN UNION {
                    {[ran EXCEPT !.files = unlinkAll(@, (cand \ K) \ F),
                                 !.ev.unlinkFailed = (F # {}),
                                 !.ev.unlinkFailures = Cardinality(F),
                                 !.ev.deletedMax = MaxMtime(w.files, (cand \ K) \ F),
                                 !.ev.deletedTarget = (w.cur \in (cand \ K) \ F)]
                        : F \in SUBSET (cand \ K)}
                    : K \in KeepSets(w.files, cand, w.cfg.maxFiles)}
            ELSE {ran}

\* rotateLogsIfNeeded without the call of cleanupOldLogs.
rotateLogsIfNeeded_noCleanup(w, t) ==
    IF ~w.cfg.enableFileLogging \/ ~w.fs THEN {w}
    ELSE
        LET logFile == Join(w.cfg.logDir, getLogFileName(t))
            rotatedFile == Join(w.cfg.logDir, rotatedFileName(t))
            called == [w EXCEPT !.ev.rotateCalled = TRUE]
            moved == [called EXCEPT !.files = renameSync(@, logFile, rotatedFile),
                                    !.ev.renames = @ + 1]
            finish(x) == {[x EXCEPT !.cur = logFile]}
        IN  IF existsSync(w.files, logFile)
            THEN {[called EXCEPT !.ev.rotateStatFailed = TRUE]}
                 \cup
                 IF statSize(w.files, logFile) >= w.cfg.maxFileSize
                 THEN {[called EXCEPT !.ev.renameFailed = TRUE]} \cup finish(moved)
                 ELSE finish(called)
            ELSE finish(called)

\* rotateLogsIfNeeded that keeps writing to the file it renamed.
rotateLogsIfNeeded_keepsRotated(w, t) ==
    IF ~w.cfg.enableFileLogging \/ ~w.fs THEN {w}
    ELSE
        LET logFile == Join(w.cfg.logDir, getLogFileName(t))
            rotatedFile == Join(w.cfg.logDir, rotatedFileName(t))
            called == [w EXCEPT !.ev.rotateCalled = TRUE]
            moved == [called EXCEPT !.files = renameSync(@, logFile, rotatedFile),
                                    !.ev.renames = @ + 1]
            finish(x, target) == {[y EXCEPT !.cur = target] : y \in cleanupOldLogs(x)}
        IN  IF existsSync(w.files, logFile)
            THEN {[called EXCEPT !.ev.rotateStatFailed = TRUE]}
                 \cup
                 IF statSize(w.files, logFile) >= w.cfg.maxFileSize
                 THEN {[called EXCEPT !.ev.renameFailed = TRUE]}
                      \cup finish(moved, rotatedFile)
                 ELSE finish(called, logFile)
            ELSE finish(called, logFile)

\* rotateLogsIfNeeded with the cleanup in a finally block: a failed rename
\* still runs it.
rotateLogsIfNeeded_failCleans(w, t) ==
    IF ~w.cfg.enableFileLogging \/ ~w.fs THEN {w}
    ELSE
        LET logFile == Join(w.cfg.logDir, getLogFileName(t))
            rotatedFile == Join(w.cfg.logDir, rotatedFileName(t))
            called == [w EXCEPT !.ev.rotateCalled = TRUE]
            moved == [called EXCEPT !.files = renameSync(@, logFile, rotatedFile),
                                    !.ev.renames = @ + 1]
            finish(x) == {[y EXCEPT !.cur = logFile] : y \in cleanupOldLogs(x)}
        IN  IF existsSync(w.files, logFile)
            THEN {[called EXCEPT !.ev.rotateStatFailed = TRUE]}
                 \cup
                 IF statSize(w.files, logFile) >= w.cfg.maxFileSize
                 THEN cleanupOldLogs([called EXCEPT !.ev.renameFailed = TRUE])
                      \cup finish(moved)
                 ELSE finish(called)
            ELSE finish(called)

rotateLogsIfNeeded(w, t) ==
    IF ~w.cfg.enableFileLogging \/ ~w.fs THEN {w}
    ELSE
        LET logFile == Join(w.cfg.logDir, getLogFileName(t))
            rotatedFile == Join(w.cfg.logDir, rotatedFileName(t))
            called == [w EXCEPT !.ev.rotateCalled = TRUE]
            moved == [called EXCEPT !.files = renameSync(@, logFile, rotatedFile),
                                    !.ev.renames = @ + 1]
            finish(x) == {[y EXCEPT !.cur = logFile] : y \in cleanupOldLogs(x)}
        IN  IF existsSync(w.files, logFile)
            THEN {[called EXCEPT !.ev.rotateStatFailed = TRUE]}
                 \cup
                 IF statSize(w.files, logFile) >= w.cfg.maxFileSize
                 THEN {[called EXCEPT !.ev.renameFailed = TRUE]} \cup finish(moved)
                 ELSE finish(called)
            ELSE finish(called)

initializeFileLogging(w, t) ==
    IF ~w.fs THEN {[w EXCEPT !.cfg.enableFileLogging = FALSE]}
    ELSE IF w.cfg.logDir \in w.dirs THEN rotateLogsIfNeeded(w, t)
    ELSE {[w EXCEPT !.cfg.enableFileLogging = FALSE, !.ev.initFailed = TRUE]}
         \cup rotateLogsIfNeeded([w EXCEPT !.dirs = @ \cup {w.cfg.logDir}], t)

\* flush that clears the buffer before the append, so a failed append drops it.
flush_dropOnFail(w, t) ==
    IF Len(w.buf) = 0 \/ w.cur = NoFile \/ ~w.fs THEN {w}
    ELSE
        LET written == appendFileSync(w.files, w.cur, w.buf, t)
            wrote == [w EXCEPT
                        !.files = written,
                        !.buf = <<>>,
                        !.ev.appended = TRUE,
                        !.ev.wasOversized = /\ existsSync(w.files, w.cur)
                                            /\ statSize(w.files, w.cur) >= w.cfg.maxFileSize,
                        !.ev.oversized = statSize(written, w.cur) >= w.cfg.maxFileSize]
        IN  {[w EXCEPT !.buf = <<>>, !.ev.appendFailed = TRUE]}
            \cup {[wrote EXCEPT !.ev.flushStatFailed = TRUE]}
            \cup
            IF statSize(written, w.cur) >= w.cfg.maxFileSize
            THEN rotateLogsIfNeeded(wrote, t)
            ELSE {wrote}

\* flush whose catch block throws the error on.
flush_rethrow(w, t) ==
    IF Len(w.buf) = 0 \/ w.cur = NoFile \/ ~w.fs THEN {w}
    ELSE
        LET written == appendFileSync(w.files, w.cur, w.buf, t)
            wrote == [w EXCEPT
                        !.files = written,
                        !.buf = <<>>,
                        !.ev.appended = TRUE,
                        !.ev.wasOversized = /\ existsSync(w.files, w.cur)
                                            /\ statSize(w.files, w.cur) >= w.cfg.maxFileSize,
                        !.ev.oversized = statSize(written, w.cur) >= w.cfg.maxFileSize]
        IN  {[w EXCEPT !.ev.appendFailed = TRUE, !.ev.raised = TRUE]}
            \cup {[wrote EXCEPT !.ev.flushStatFailed = TRUE, !.ev.raised = TRUE]}
            \cup
            IF statSize(written, w.cur) >= w.cfg.maxFileSize
            THEN rotateLogsIfNeeded(wrote, t)
            ELSE {wrote}

\* flush without the size check after the append.
flush_noSizeCheck(w, t) ==
    IF Len(w.buf) = 0 \/ w.cur = NoFile \/ ~w.fs THEN {w}
    ELSE
        LET written == appendFileSync(w.files, w.cur, w.buf, t)
            wrote == [w EXCEPT
                        !.files = written,
                        !.buf = <<>>,
                        !.ev.appended = TRUE,
                        !.ev.wasOversized = /\ existsSync(w.files, w.cur)
                                            /\ statSize(w.files, w.cur) >= w.cfg.maxFileSize,
                        !.ev.oversized = statSize(written, w.cur) >= w.cfg.maxFileSize]
        IN  {[w EXCEPT !.ev.appendFailed = TRUE]} \cup {wrote}

\* flush that appends to the file named after the current day, whatever the
\* write target is.
flush_today(w, t) ==
    IF Len(w.buf) = 0 \/ w.cur = NoFile \/ ~w.fs THEN {w}
    ELSE
        LET today == Join(w.cfg.logDir, getLogFileName(t))
            written == appendFileSync(w.files, today, w.buf, t)
            wrote == [w EXCEPT
                        !.files = written,
                        !.buf = <<>>,
                        !.ev.appended = TRUE,
                        !.ev.wasOversized = /\ existsSync(w.files, today)
                                            /\ statSize(w.files, today) >= w.cfg.maxFileSize,
                        !.ev.oversized = statSize(written, today) >= w.cfg.maxFileSize]
        IN  {[w EXCEPT !.ev.appendFailed = TRUE]}
            \cup {[wrote EXCEPT !.ev.flushStatFailed = TRUE]}
            \cup
            IF statSize(written, today) >= w.cfg.maxFileSize
            THEN rotateLogsIfNeeded(wrote, t)
            ELSE {wrote}

flush(w, t) ==
    IF Len(w.buf) = 0 \/ w.cur = NoFile \/ ~w.fs THEN {w}
    ELSE
        LET written == appendFileSync(w.files, w.cur, w.buf, t)
            wrote == [w EXCEPT
                        !.files = written,
                        !.buf = <<>>,
                        !.ev.appended = TRUE,
                        !.ev.wasOversized = /\ existsSync(w.files, w.cur)
                                            /\ statSize(w.files, w.cur) >= w.cfg.maxFileSize,
                        !.ev.oversized = statSize(written, w.cur) >= w.cfg.maxFileSize]
        IN  {[w EXCEPT !.ev.appendFailed = TRUE]}
            \cup {[wrote EXCEPT !.ev.flushStatFailed = TRUE]}
            \cup
            IF statSize(written, w.cur) >= w.cfg.maxFileSize
            THEN rotateLogsIfNeeded(wrote, t)
            ELSE {wrote}

\* A try block whose catch only reports: what the calls inside it raised
\* stops there.
Caught(ws) == {[x EXCEPT !.ev.raised = FALSE] : x \in ws}

\* writeToFile that flushes when the buffer is over batchSize (> for >=).
writeToFile_strict(w, line, t) ==
    IF ~w.cfg.enableFileLogging \/ w.cur = NoFile THEN {w}
    ELSE
        LET pushed == [w EXCEPT !.buf = Append(@, fullMessage(line)),
                                !.ev.accepted = TRUE]
        IN  IF Len(pushed.buf) > w.cfg.batchSize
            THEN Caught(flush(pushed, t)) ELSE {pushed}

\* writeToFile that does not look at enableFileLogging.
writeToFile_ignoresDisabled(w, line, t) ==
    IF w.cur = NoFile THEN {w}
    ELSE
        LET pushed == [w EXCEPT !.buf = Append(@, fullMessage(line)),
                                !.ev.accepted = TRUE]
        IN  IF Len(pushed.buf) >= w.cfg.batchSize
            THEN Caught(flush(pushed, t)) ELSE {pushed}

\* writeToFile that leaves every flush to the timer.
writeToFile_noFlush(w, line, t) ==
    IF ~w.cfg.enableFileLogging \/ w.cur = NoFile THEN {w}
    ELSE {[w EXCEPT !.buf = Append(@, fullMessage(line)), !.ev.accepted = TRUE]}

writeToFile(w, line, t) ==
    IF ~w.cfg.enableFileLogging \/ w.cur = NoFile THEN {w}
    ELSE
        LET pushed == [w EXCEPT !.buf = Append(@, fullMessage(line)),
                                !.ev.accepted = TRUE]
        IN  IF Len(pushed.buf) >= w.cfg.batchSize
            THEN Caught(flush(pushed, t)) ELSE {pushed}

\* log without the level filter.
log_noFilter(w, level, line, t) ==
    LET printed == [w EXCEPT !.ev.printed = w.cfg.enableConsole]
    IN  IF w.fs THEN writeToFile(printed, line, t) ELSE {printed}

log(w, level, line, t) ==
    IF level > w.cfg.level THEN {w}
    ELSE
        LET printed == [w EXCEPT !.ev.printed = w.cfg.enableConsole]
        IN  IF w.fs THEN writeToFile(printed, line, t) ELSE {printed}

\* Day of a file name: the YYYY-MM-DD its text starts with after "app-web-".
DayOf(name) == IF name.kind = "day" THEN name.stamp ELSE name.stamp \div TicksPerDay

\* a < b as Array.prototype.sort() compares the names, by UTF-16 code units:
\* the dates first; on the same date "app-web-D.log" is below "app-web-DT...":
\* "." (0x2E) is below "T" (0x54); two rotated names by their time.
NameLess(a, b) ==
    \/ DayOf(a) < DayOf(b)
    \/ /\ DayOf(a) = DayOf(b)
       /\ \/ a.kind = "day" /\ b.kind = "rot"
          \/ a.kind = "rot" /\ b.kind = "rot" /\ a.stamp < b.stamp

\* names.sort().reverse(): descending.
RECURSIVE SortReverse(_)
SortReverse(names) ==
    IF names = {} THEN <<>>
    ELSE LET top == CHOOSE n \in names : \A m \in names \ {n} : NameLess(m, n)
         IN  <<top>> \o SortReverse(names \ {top})

\* getLogFiles: [] in the browser, when file logging is disabled and when
\* readdirSync throws (it does for a directory that does not exist).
getLogFiles(w) ==
    IF ~w.fs \/ ~w.cfg.enableFileLogging
    THEN {[w EXCEPT !.ev.ret = [NoReturn EXCEPT !.kind = "list"]]}
    ELSE {[w EXCEPT !.ev.ret = [NoReturn EXCEPT !.kind = "list"],
                    !.ev.readFailed = TRUE]}
         \cup
         IF w.cfg.logDir \in w.dirs
         THEN {[w EXCEPT !.ev.ret =
                    [NoReturn EXCEPT
                        !.kind = "list",
                        !.list = SortReverse({p.name : p \in
                                    LogFilesIn(w.files, w.cfg.logDir)})]]}
         ELSE {}

\* getLogs that also returns the lines still in the buffer.
getLogs_withBuffer(w, date, t) ==
    IF ~w.fs \/ ~w.cfg.enableFileLogging
    THEN {[w EXCEPT !.ev.ret = [NoReturn EXCEPT !.kind = "null"]]}
    ELSE
        LET fileName == IF date # NoDate THEN [kind |-> "day", stamp |-> date]
                        ELSE getLogFileName(t)
            logFile == Join(w.cfg.logDir, fileName)
        IN  IF existsSync(w.files, logFile)
            THEN {[w EXCEPT !.ev.ret = [NoReturn EXCEPT !.kind = "null"],
                            !.ev.readFailed = TRUE],
                  [w EXCEPT !.ev.ret = [NoReturn EXCEPT
                                            !.kind = "text",
                                            !.text = w.files[logFile].content \o w.buf]]}
            ELSE {[w EXCEPT !.ev.ret = [NoReturn EXCEPT !.kind = "null"]]}

\* getLogs(date?): the text of the day's file; null in the browser, when file
\* logging is disabled, when the file is absent and when readFileSync throws.
getLogs(w, date, t) ==
    IF ~w.fs \/ ~w.cfg.enableFileLogging
    THEN {[w EXCEPT !.ev.ret = [NoReturn EXCEPT !.kind = "null"]]}
    ELSE
        LET fileName == IF date # NoDate THEN [kind |-> "day", stamp |-> date]
                        ELSE getLogFileName(t)
            logFile == Join(w.cfg.logDir, fileName)
        IN  IF existsSync(w.files, logFile)
            THEN {[w EXCEPT !.ev.ret = [NoReturn EXCEPT !.kind = "null"],
                            !.ev.readFailed = TRUE],
                  [w EXCEPT !.ev.ret = [NoReturn EXCEPT
                                            !.kind = "text",
                                            !.text = w.files[logFile].content]]}
            ELSE {[w EXCEPT !.ev.ret = [NoReturn EXCEPT !.kind = "null"]]}

\* ---------------------------------------------------------- UserService
\* UserRole
SUPER_ADMIN == "SUPER_ADMIN"
MANAGER == "MANAGER"
USER == "USER"
UserRole == {SUPER_ADMIN, MANAGER, USER}

\* UserStatus: the default of a new record, and that of the records on file.
PENDING_VERIFICATION == "PENDING_VERIFICATION"
ACTIVE == "ACTIVE"

\* An optional argument that was not passed.
Undefined == "(undefined)"

\* An email address local@domain.tld by its parts.  EmptyEmail: the string
\* ''; NoEmail: data.email is undefined.
EmptyEmail == [local |-> "", domain |-> "", tld |-> ""]
NoEmail == [local |-> Undefined, domain |-> "", tld |-> ""]

\* if (data.email && ...): undefined and '' are falsy.
Truthy(email) == email \notin {NoEmail, EmptyEmail}

\* isValidEmail that accepts every string.
isValidEmail_any(email) == TRUE

\* /^[^\s@]+@[^\s@]+\.[^\s@]+$/: the three parts are there.
isValidEmail(email) == email.local # "" /\ email.domain # "" /\ email.tld # ""

\* The records the data source starts with.
SeedUsers ==
    [id \in {"u1", "u2"} |->
        IF id = "u1"
        THEN [role |-> USER, status |-> ACTIVE, firstName |-> "Ann",
              email |-> [local |-> "ann", domain |-> "x", tld |-> "io"]]
        ELSE [role |-> MANAGER, status |-> ACTIVE, firstName |-> "Bob",
              email |-> [local |-> "bob", domain |-> "x", tld |-> "io"]]]

\* Arguments of the calls: the target, the requester's id and role (either
\* may be missing), the update (a first name; an email another user has; a
\* malformed email).
TargetIds == {"u1", "u2"}
RequesterIds == {"u1", Undefined}
RequesterRoles == UserRole \cup {Undefined}
Updates ==
    {[firstName |-> "Jane", email |-> NoEmail],
     [firstName |-> "", email |-> [local |-> "bob", domain |-> "x", tld |-> "io"]],
     [firstName |-> "", email |-> [local |-> "bob", domain |-> "", tld |-> ""]]}

\* Updates of the email alone: to that of a record on file, to a new one, to
\* a malformed one, to the empty string; and the callers who make them.
EmailUpdates ==
    {[firstName |-> "", email |-> [local |-> "bob", domain |-> "x", tld |-> "io"]],
     [firstName |-> "", email |-> [local |-> "cat", domain |-> "x", tld |-> "io"]],
     [firstName |-> "", email |-> [local |-> "cat", domain |-> "x", tld |-> ""]],
     [firstName |-> "", email |-> EmptyEmail]}
EmailRequesterRoles == {SUPER_ADMIN, USER}

\* Arguments of createUser: the email (that of a record on file; the same in
\* another case; two new ones; one without a top-level domain) and the role
\* (it may be missing); the status is left to the default.
CreateEmails ==
    {[local |-> "ann", domain |-> "x", tld |-> "io"],
     [local |-> "Ann", domain |-> "x", tld |-> "io"],
     [local |-> "cat", domain |-> "x", tld |-> "io"],
     [local |-> "dan", domain |-> "x", tld |-> "io"],
     [local |-> "cat", domain |-> "x", tld |-> ""]}
CreateRoles == {Undefined, MANAGER}

\* Records the store can hold.
MaxUsers == 4

\* Calls that can be in flight at once.
Slots == {1, 2}

\* A slot with no call.  A call: its arguments, where it waits (pc: the await
\* it is suspended at, or "settled"), whether the target was found, whether
\* the data source's method of the same name (createUser, updateUser,
\* deleteUser, getUsersByRole) was invoked, the outcome ("ok" or the message
\* of the Error the promise rejects with) and the ids of the users returned.
Idle ==
    [op |-> "none", pc |-> "idle", id |-> "", requestingUserId |-> "",
     requestingUserRole |-> "", data |-> [firstName |-> "", email |-> NoEmail],
     role |-> "", status |-> "",
     found |-> FALSE, invoked |-> FALSE, result |-> "", list |-> {}]

\* The promise of a call settles: the slot keeps what it was, whether the
\* target was found, whether the data source was asked to write, and the
\* outcome; the arguments are gone with the call.
Settled(c, found, result) ==
    [Idle EXCEPT !.op = c.op, !.pc = "settled", !.id = c.id, !.found = found,
                 !.invoked = c.invoked, !.result = result]

\* The slot a new call takes: the lowest one with no call in flight.
FreeSlot(cs) ==
    IF \E s \in Slots : cs[s].pc \in {"idle", "settled"}
    THEN {CHOOSE s \in Slots : /\ cs[s].pc \in {"idle", "settled"}
                               /\ \A r \in Slots : cs[r].pc \in {"idle", "settled"} => s <= r}
    ELSE {}

\* canModifyUser without the MANAGER branch.
canModifyUser_noManager(targetUserId, requestingUserId, requestingUserRole) ==
    \/ targetUserId = requestingUserId
    \/ requestingUserRole = SUPER_ADMIN

canModifyUser(targetUserId, requestingUserId, requestingUserRole) ==
    \/ targetUserId = requestingUserId
    \/ requestingUserRole = SUPER_ADMIN
    \/ requestingUserRole = MANAGER

\* canDeleteUser without the self check.
canDeleteUser_selfAllowed(targetUserId, requestingUserId, requestingUserRole) ==
    requestingUserRole = SUPER_ADMIN

canDeleteUser(targetUserId, requestingUserId, requestingUserRole) ==
    IF targetUserId = requestingUserId THEN FALSE
    ELSE requestingUserRole = SUPER_ADMIN

\* new UserService({ dataSource }): the defaults of the constructor.
defaultRole == USER
defaultStatus == PENDING_VERIFICATION

\* The promise of a call settles, the slot keeping the arguments too.
Returned(c, result) == [c EXCEPT !.pc = "settled", !.result = result]

\* canViewUsersByRole that lets every caller in.
canViewUsersByRole_anyone(requestingUserRole) == TRUE

canViewUsersByRole(requestingUserRole) ==
    \/ requestingUserRole = SUPER_ADMIN
    \/ requestingUserRole = MANAGER

\* IDataSource.getUserByEmail: some record has the email.
getUserByEmail(us, email) == \E id \in DOMAIN us : us[id].email = email

\* IDataSource.getUsersByRole: the records with the role.
getUsersByRole(us, role) == {id \in DOMAIN us : us[id].role = role}

\* The id of a new record (@default(cuid())): one no record has.
freshId(us) ==
    LET n == CHOOSE k \in 1..(Cardinality(DOMAIN us) + 1) :
                /\ ("u" \o ToString(k)) \notin DOMAIN us
                /\ \A j \in 1..(k - 1) : ("u" \o ToString(j)) \in DOMAIN us
    IN  "u" \o ToString(n)

\* prisma.user.create({ data }): the store with one more record, of email,
\* firstName and role (status is left to the column's default), under a new
\* id.
created(us, userData) ==
    [id \in DOMAIN us \cup {freshId(us)} |->
        IF id \in DOMAIN us THEN us[id]
        ELSE [role |-> userData.role, status |-> PENDING_VERIFICATION,
              firstName |-> userData.firstName, email |-> userData.email]]

\* A data source whose createUser stores whatever it is given.
dataSourceCreate_noUnique(us, userData) ==
    [ok |-> TRUE, users |-> created(us, userData)]

\* PrismaDataSource.createUser: the unique index on email makes it reject
\* when a record has the email.
dataSourceCreate(us, userData) ==
    IF getUserByEmail(us, userData.email)
    THEN [ok |-> FALSE, users |-> us]
    ELSE [ok |-> TRUE, users |-> created(us, userData)]

\* The unique index on email refuses the update: another record has it.
emailTaken(us, id, data) ==
    /\ data.email # NoEmail
    /\ \E k \in DOMAIN us \ {id} : us[k].email = data.email

\* IDataSource.updateUser: the fields given replace the stored ones.
dataSourceUpdate(us, id, data) ==
    [us EXCEPT ![id].firstName = IF data.firstName # "" THEN data.firstName ELSE @,
               ![id].email = IF data.email # NoEmail THEN data.email ELSE @]

\* IDataSource.deleteUser
dataSourceDelete(us, id) == [k \in DOMAIN us \ {id} |-> us[k]]

\* -------------------------------------------- auth routes of the admin app
\* The cookies of the admin app: each a value or absent.
NoCookies ==
    [accessToken |-> Undefined, refreshToken |-> Undefined, adminRole |-> Undefined]

\* What the backend can answer to apiClient.post("/auth/login") and
\* apiClient.get("/auth/profile"): the call throws an error with a status
\* (401) or without one (0), or returns { success, data } where data, when
\* there, has the user (its role, absent from a malformed user) and, for a
\* login, the two tokens.
AccessTokens == {"at1", "at2"}
RefreshTokens == {"rt1", "rt2"}
NoOutcome ==
    [kind |-> "none", status |-> 0, success |-> FALSE, hasData |-> FALSE,
     role |-> Undefined, accessToken |-> Undefined, refreshToken |-> Undefined]
Thrown == {[NoOutcome EXCEPT !.kind = "throws", !.status = st] : st \in {0, 401}}
Failed ==
    {[NoOutcome EXCEPT !.kind = "returns", !.success = ok] : ok \in BOOLEAN}
LoginOutcomes ==
    Thrown \cup Failed \cup
    {[NoOutcome EXCEPT !.kind = "returns", !.success = TRUE, !.hasData = TRUE,
                       !.role = r, !.accessToken = a, !.refreshToken = rt]
        : r \in UserRole \cup {Undefined},
          a \in AccessTokens, rt \in RefreshTokens}
ProfileOutcomes ==
    Thrown \cup Failed \cup
    {[NoOutcome EXCEPT !.kind = "returns", !.success = TRUE, !.hasData = TRUE,
                       !.role = r] : r \in UserRole}

\* NextResponse.json(body, { status }): the status and, of the body, the
\* error message, the role of the user and the tokens, each where present.
NoResponse ==
    [status |-> 0, success |-> FALSE, message |-> "", user |-> Undefined,
     accessToken |-> Undefined, refreshToken |-> Undefined]
ErrorResponse(status, message) ==
    [NoResponse EXCEPT !.status = status, !.message = message]

\* The catch block of the routes: { status: err.status || 500 }.
CaughtResponse(o, message) ==
    ErrorResponse(IF o.status # 0 THEN o.status ELSE 500, message)

\* The login route without the check of the role.
loginRoute_anyRole(jar, o) ==
    IF o.kind = "throws"
    THEN [cookies |-> jar, response |-> CaughtResponse(o, "Login failed")]
    ELSE IF ~o.success \/ ~o.hasData
    THEN [cookies |-> jar, response |-> ErrorResponse(400, "Login failed")]
    ELSE [cookies |-> [accessToken |-> o.accessToken,
                       refreshToken |-> o.refreshToken,
                       adminRole |-> o.role],
          response |-> [NoResponse EXCEPT !.status = 200, !.success = TRUE,
                                          !.user = o.role]]

\* POST /api/auth/login of the admin app: the cookies after it and its
\* response, given the cookies before and what the backend answered.
loginRoute(jar, o) ==
    IF o.kind = "throws"
    THEN [cookies |-> jar, response |-> CaughtResponse(o, "Login failed")]
    ELSE IF ~o.success \/ ~o.hasData
    THEN [cookies |-> jar, response |-> ErrorResponse(400, "Login failed")]
    ELSE IF o.role # MANAGER /\ o.role # SUPER_ADMIN
    THEN [cookies |-> jar,
          response |-> ErrorResponse(403, "Access denied. Admin privileges required.")]
    ELSE [cookies |-> [accessToken |-> o.accessToken,
                       refreshToken |-> o.refreshToken,
                       adminRole |-> o.role],
          response |-> [NoResponse EXCEPT !.status = 200, !.success = TRUE,
                                          !.user = o.role]]

\* GET /api/auth/profile of the admin app.  The backend is asked only when
\* both cookies pass; an error with status 401 clears the cookies.
profileRoute(jar, o) ==
    IF jar.accessToken = Undefined
    THEN [cookies |-> jar, response |-> ErrorResponse(401, "Not authenticated")]
    ELSE IF jar.adminRole = Undefined
            \/ (jar.adminRole # MANAGER /\ jar.adminRole # SUPER_ADMIN)
    THEN [cookies |-> jar, response |-> ErrorResponse(403, "Admin access required")]
    ELSE IF o.kind = "throws"
    THEN [cookies |-> IF o.status = 401 THEN NoCookies ELSE jar,
          response |-> CaughtResponse(o, "Failed to get profile")]
    ELSE IF ~o.success \/ ~o.hasData
    THEN [cookies |-> jar, response |-> ErrorResponse(400, "Failed to get profile")]
    ELSE IF o.role # MANAGER /\ o.role # SUPER_ADMIN
    THEN [cookies |-> jar, response |-> ErrorResponse(403, "Admin access required")]
    ELSE [cookies |-> jar,
          response |-> [NoResponse EXCEPT !.status = 200, !.success = TRUE,
                                          !.user = o.role]]

\* POST /api/auth/logout of the admin app: the cookies are deleted whatever
\* the backend answers; NextResponse.redirect (307) to /login.
logoutRoute(jar) ==
    [cookies |-> NoCookies, response |-> [NoResponse EXCEPT !.status = 307]]

\* ----------------------------------------------------------------- state
VARIABLES
    phase,          \* "new" before new Logger(), "live", "exited"
    server,         \* typeof window === "undefined": fs and path are loaded
    now,            \* the clock
    config,         \* Logger.config
    currentLogFile, \* Logger.currentLogFile
    logBuffer,      \* Logger.logBuffer
    flushTimer,     \* Logger.flushTimer
    dirs,           \* directories that exist
    files,          \* path -> [content, mtime] of the files that exist
    nextId,         \* number of the next line to reach the buffer
    run,            \* while ok: the accepted log calls (n) and the flushes
                    \* since construction or the last setBatchSize on an empty
                    \* buffer, with no timer tick and no fs failure since
    ev,             \* what the last handler did
    users,          \* the data source: id -> the user record
    calls,          \* the UserService calls in flight or just settled
    cookieStore,    \* the cookies the admin app has set in the browser
    http            \* the last request to an auth route of the admin app

\* The variables of the UserService, of the admin app's auth routes and
\* those of the logger.
service == <<users, calls>>
admin == <<cookieStore, http>>
logger == <<phase, server, now, config, currentLogFile, logBuffer, flushTimer,
            dirs, files, nextId, run, ev>>

vars == <<phase, server, now, config, currentLogFile, logBuffer, flushTimer,
          dirs, files, nextId, run, ev, users, calls, cookieStore, http>>

\* flushTimer: null, or the Timeout object setInterval returned (handle), which
\* stays a non-null object after clearInterval stopped it (running = FALSE).
NoTimer == [handle |-> FALSE, running |-> FALSE, interval |-> 0]

\* startFlushTimer: keeps the timer it has, whether or not it still runs.
startFlushTimer(timer, cfg) ==
    IF timer.handle THEN timer
    ELSE [handle |-> TRUE, running |-> TRUE, interval |-> cfg.flushInterval]

\* clearInterval(this.flushTimer): the object stays, the callback stops.
clearInterval(timer) == [timer EXCEPT !.running = FALSE]

Init ==
    /\ phase = "new"
    /\ server \in BOOLEAN
    /\ now = 1
    /\ config = [level |-> DEBUG,
                 enableConsole |-> TRUE,
                 enableFileLogging |-> server,
                 logDir |-> IF server THEN LOG_DIR_NAME ELSE "",
                 maxFileSize |-> MAX_FILE_SIZE,
                 maxFiles |-> MAX_FILES_TO_KEEP,
                 batchSize |-> BATCH_SIZE,
                 flushInterval |-> FLUSH_INTERVAL]
    /\ currentLogFile = NoFile
    /\ logBuffer = <<>>
    /\ flushTimer = NoTimer
    /\ dirs = {}
    /\ files = <<>>
    /\ nextId = 1
    /\ run = [n |-> 0, flushes |-> 0, ok |-> TRUE]
    /\ ev = NoEvent
    /\ users = SeedUsers
    /\ calls = [s \in Slots |-> Idle]
    /\ cookieStore = NoCookies
    /\ http = [route |-> "none", outcome |-> NoOutcome, response |-> NoResponse]

World(op) ==
    [fs |-> server, cfg |-> config, cur |-> currentLogFile, buf |-> logBuffer,
     dirs |-> dirs, files |-> files,
     ev |-> [NoEvent EXCEPT !.op = op]]

Apply(w) ==
    /\ config' = w.cfg
    /\ currentLogFile' = w.cur
    /\ logBuffer' = w.buf
    /\ dirs' = w.dirs
    /\ files' = w.files
    /\ ev' = w.ev

\* Some fs call of the handler threw.
IoFailure(e) ==
    \/ e.appendFailed \/ e.flushStatFailed \/ e.rotateStatFailed
    \/ e.renameFailed \/ e.cleanupFailed \/ e.initFailed
    \/ e.unlinkFailed \/ e.readFailed

\* No count is running.
NoRun == [n |-> 0, flushes |-> 0, ok |-> FALSE]

\* run after a handler: an accepted log call counts; a flush from elsewhere
\* (timer, signal, exit, destroy) or a failed fs call ends the count.
RunAfter(w) ==
    IF run.ok /\ w.ev.op = "log" /\ ~IoFailure(w.ev)
    THEN [n |-> run.n + (IF w.ev.accepted THEN 1 ELSE 0),
          flushes |-> run.flushes + (IF w.ev.appended THEN 1 ELSE 0),
          ok |-> TRUE]
    ELSE IF run.ok /\ w.ev.op \in {"init", "set", "get"} /\ ~IoFailure(w.ev)
    THEN run
    ELSE NoRun

\* ---------------------------------------------------------------- actions
\* new Logger()
Constructor ==
    /\ phase = "new"
    /\ phase' = "live"
    /\ IF config.enableFileLogging
       THEN /\ \E w \in initializeFileLogging(World("init"), now) :
                    Apply(w) /\ run' = RunAfter(w)
            /\ flushTimer' = startFlushTimer(flushTimer, config)
       ELSE /\ Apply(World("init"))
            /\ UNCHANGED <<flushTimer, run>>
    /\ UNCHANGED <<service, admin>>
    /\ UNCHANGED <<server, now, nextId>>

\* error / warn / info / debug, with the context and the data drawn from the
\* given set.
LogOf(arguments) ==
    /\ phase = "live"
    /\ nextId <= MaxLogs
    /\ \E level \in LogLevel, size \in LineSizes, given \in arguments :
         LET entry == [id |-> nextId, size |-> size,
                       context |-> given.context, data |-> given.data]
             called == [World("log") EXCEPT !.ev.above = level > config.level,
                                            !.ev.given = given]
         IN  \E w \in log(called, level, entry, now) :
                /\ Apply(w)
                /\ run' = RunAfter(w)
                /\ nextId' = IF w.ev.accepted THEN nextId + 1 ELSE nextId
    /\ UNCHANGED <<service, admin>>
    /\ UNCHANGED <<phase, server, now, flushTimer>>

\* A log call with a message only.
Log == LogOf(MessageOnly)

\* A log call with or without a context and structured data.
LogEntry == LogOf(Entries)

\* the setInterval callback
TimerFlush ==
    /\ phase = "live"
    /\ flushTimer.running
    /\ \E w \in flush(World("flush"), now) : Apply(w) /\ run' = RunAfter(w)
    /\ UNCHANGED <<service, admin>>
    /\ UNCHANGED <<phase, server, now, flushTimer, nextId>>

\* process.on("SIGINT" | "SIGTERM", () => this.flush()): with a listener
\* installed the signal no longer ends the process.
Signal ==
    /\ phase = "live"
    /\ server
    /\ \E w \in flush(World("flush"), now) : Apply(w) /\ run' = RunAfter(w)
    /\ UNCHANGED <<service, admin>>
    /\ UNCHANGED <<phase, server, now, flushTimer, nextId>>

\* process.on("exit", () => this.flush()); nothing runs afterwards.
Exit ==
    /\ phase = "live"
    /\ phase' = "exited"
    /\ IF server
       THEN \E w \in flush(World("exit"), now) : Apply(w) /\ run' = RunAfter(w)
       ELSE Apply(World("exit")) /\ UNCHANGED run
    /\ UNCHANGED <<service, admin>>
    /\ UNCHANGED <<server, now, flushTimer, nextId>>

\* destroy that leaves the timer alone.
destroy_keepsTimer ==
    /\ phase = "live"
    /\ \E w \in flush(World("destroy"), now) : Apply(w) /\ run' = RunAfter(w)
    /\ UNCHANGED <<service, admin>>
    /\ UNCHANGED <<phase, server, now, nextId, flushTimer>>

destroy ==
    /\ phase = "live"
    /\ flushTimer' = IF flushTimer.handle THEN NoTimer ELSE flushTimer
    /\ \E w \in flush(World("destroy"), now) : Apply(w) /\ run' = RunAfter(w)
    /\ UNCHANGED <<service, admin>>
    /\ UNCHANGED <<phase, server, now, nextId>>

setLevel ==
    /\ phase = "live"
    /\ \E level \in LogLevel :
         LET w == [World("set") EXCEPT !.cfg.level = level]
         IN  Apply(w) /\ run' = RunAfter(w)
    /\ UNCHANGED <<service, admin>>
    /\ UNCHANGED <<phase, server, now, flushTimer, nextId>>

\* setLogDir(dir), dir drawn from the given set.
SetLogDirOf(dirSet) ==
    /\ phase = "live"
    /\ \E dir \in dirSet :
         LET set == [World("init") EXCEPT !.cfg.logDir = dir]
         IN  \E w \in (IF config.enableFileLogging
                       THEN initializeFileLogging(set, now) ELSE {set}) :
                Apply(w) /\ run' = RunAfter(w)
    /\ UNCHANGED <<service, admin>>
    /\ UNCHANGED <<phase, server, now, flushTimer, nextId>>

\* setLogDir on the default directory.
setLogDir == SetLogDirOf(LogDirs)

\* setLogDir that may move the logs to another directory.
setLogDirCustom == SetLogDirOf(CustomLogDirs)

setMaxFileSize ==
    /\ phase = "live"
    /\ \E sizeInMB \in FileSizesMB :
         LET w == [World("set") EXCEPT !.cfg.maxFileSize = sizeInMB * 1024 * 1024]
         IN  Apply(w) /\ run' = RunAfter(w)
    /\ UNCHANGED <<service, admin>>
    /\ UNCHANGED <<phase, server, now, flushTimer, nextId>>

setMaxFiles ==
    /\ phase = "live"
    /\ \E count \in FileCounts :
         LET w == [World("set") EXCEPT !.cfg.maxFiles = count]
         IN  Apply(w) /\ run' = RunAfter(w)
    /\ UNCHANGED <<service, admin>>
    /\ UNCHANGED <<phase, server, now, flushTimer, nextId>>

setBatchSize ==
    /\ phase = "live"
    /\ \E size \in BatchSizes :
         LET w == [World("set") EXCEPT !.cfg.batchSize = size]
         IN  /\ Apply(w)
             /\ run' = IF logBuffer = <<>>
                        THEN [n |-> 0, flushes |-> 0, ok |-> TRUE]
                        ELSE NoRun
    /\ UNCHANGED <<service, admin>>
    /\ UNCHANGED <<phase, server, now, flushTimer, nextId>>

setFlushInterval ==
    /\ phase = "live"
    /\ \E intervalMs \in Intervals :
         LET w == [World("set") EXCEPT !.cfg.flushInterval = intervalMs]
         IN  /\ Apply(w)
             /\ run' = RunAfter(w)
             /\ flushTimer' = IF flushTimer.handle
                              THEN startFlushTimer(clearInterval(flushTimer), w.cfg)
                              ELSE flushTimer
    /\ UNCHANGED <<service, admin>>
    /\ UNCHANGED <<phase, server, now, nextId>>

\* getLogs(date?)
GetLogs ==
    /\ phase = "live"
    /\ \E date \in Dates :
         \E w \in getLogs([World("get") EXCEPT !.ev.date = date], date, now) :
            Apply(w) /\ run' = RunAfter(w)
    /\ UNCHANGED <<service, admin>>
    /\ UNCHANGED <<phase, server, now, flushTimer, nextId>>

\* getLogFiles()
GetLogFiles ==
    /\ phase = "live"
    /\ \E w \in getLogFiles(World("get")) : Apply(w) /\ run' = RunAfter(w)
    /\ UNCHANGED <<service, admin>>
    /\ UNCHANGED <<phase, server, now, flushTimer, nextId>>

\* updateUser(id, data, requestingUserId?, requestingUserRole?) is called: it
\* runs to its first await, dataSource.getUserById(id).
UpdateUserOf(updates, roles) ==
    /\ \E s \in FreeSlot(calls), id \in TargetIds, data \in updates,
          by \in RequesterIds, role \in roles :
         /\ calls' = [calls EXCEPT ![s] =
                [Idle EXCEPT !.op = "updateUser", !.pc = "getUserById", !.id = id,
                             !.data = data, !.requestingUserId = by,
                             !.requestingUserRole = role]]
    /\ UNCHANGED users
    /\ UNCHANGED <<logger, admin>>

UpdateUserCall == UpdateUserOf(Updates, RequesterRoles)

\* updateUser called to change an email.
UpdateEmailCall == UpdateUserOf(EmailUpdates, EmailRequesterRoles)

\* updateUser with the authorization check ahead of the existence check.
UpdateUserChecks_authFirst ==
    /\ \E s \in Slots :
         LET c == calls[s]
             known == [c EXCEPT !.found = TRUE]
         IN  /\ c.op = "updateUser" /\ c.pc = "getUserById"
             /\ calls' = [calls EXCEPT ![s] =
                    IF ~canModifyUser(c.id, c.requestingUserId, c.requestingUserRole)
                    THEN Settled(c, c.id \in DOMAIN users,
                                 "Unauthorized to modify this user")
                    ELSE IF c.id \notin DOMAIN users
                    THEN Settled(c, FALSE, "User not found")
                    ELSE IF Truthy(c.data.email) /\ ~isValidEmail(c.data.email)
                    THEN Settled(c, TRUE, "Invalid email format")
                    ELSE IF Truthy(c.data.email) /\ c.data.email # users[c.id].email
                    THEN [known EXCEPT !.pc = "getUserByEmail"]
                    ELSE [known EXCEPT !.pc = "updateUser", !.invoked = TRUE]]
    /\ UNCHANGED users
    /\ UNCHANGED <<logger, admin>>

\* updateUser resumes with the record getUserById found: the existence and
\* authorization checks, the email format, then the next await.
UpdateUserChecks ==
    /\ \E s \in Slots :
         LET c == calls[s]
             known == [c EXCEPT !.found = TRUE]
         IN  /\ c.op = "updateUser" /\ c.pc = "getUserById"
             /\ calls' = [calls EXCEPT ![s] =
                    IF c.id \notin DOMAIN users
                    THEN Settled(c, FALSE, "User not found")
                    ELSE IF ~canModifyUser(c.id, c.requestingUserId, c.requestingUserRole)
                    THEN Settled(c, TRUE, "Unauthorized to modify this user")
                    ELSE IF Truthy(c.data.email) /\ ~isValidEmail(c.data.email)
                    THEN Settled(c, TRUE, "Invalid email format")
                    ELSE IF Truthy(c.data.email) /\ c.data.email # users[c.id].email
                    THEN [known EXCEPT !.pc = "getUserByEmail"]
                    ELSE [known EXCEPT !.pc = "updateUser", !.invoked = TRUE]]
    /\ UNCHANGED users
    /\ UNCHANGED <<logger, admin>>

\* updateUser resumes with the answer of getUserByEmail.
UpdateUserEmail ==
    /\ \E s \in Slots :
         LET c == calls[s]
         IN  /\ c.op = "updateUser" /\ c.pc = "getUserByEmail"
             /\ calls' = [calls EXCEPT ![s] =
                    IF getUserByEmail(users, c.data.email)
                    THEN Settled(c, TRUE, "Email already in use")
                    ELSE [c EXCEPT !.pc = "updateUser", !.invoked = TRUE]]
    /\ UNCHANGED users
    /\ UNCHANGED <<logger, admin>>

\* dataSource.updateUser settles: it rejects when the record is gone or
\* another record has the email.
UpdateUserDone ==
    /\ \E s \in Slots :
         LET c == calls[s]
         IN  /\ c.op = "updateUser" /\ c.pc = "updateUser"
             /\ IF c.id \notin DOMAIN users
                THEN /\ users' = users
                     /\ calls' = [calls EXCEPT ![s] =
                            Settled(c, TRUE, "Record to update not found")]
                ELSE IF emailTaken(users, c.id, c.data)
                THEN /\ users' = users
                     /\ calls' = [calls EXCEPT ![s] =
                            Settled(c, TRUE, "Unique constraint failed")]
                ELSE /\ users' = dataSourceUpdate(users, c.id, c.data)
                     /\ calls' = [calls EXCEPT ![s] = Settled(c, TRUE, "ok")]
    /\ UNCHANGED <<logger, admin>>

\* deleteUser(id, requestingUserId?, requestingUserRole?) is called: it runs
\* to its first await, dataSource.getUserById(id).
DeleteUserCall ==
    /\ \E s \in FreeSlot(calls), id \in TargetIds,
          by \in RequesterIds, role \in RequesterRoles :
         /\ calls' = [calls EXCEPT ![s] =
                [Idle EXCEPT !.op = "deleteUser", !.pc = "getUserById", !.id = id,
                             !.requestingUserId = by, !.requestingUserRole = role]]
    /\ UNCHANGED users
    /\ UNCHANGED <<logger, admin>>

\* deleteUser resumes with the record getUserById found: the existence and
\* authorization checks, then dataSource.deleteUser(id).
DeleteUserChecks ==
    /\ \E s \in Slots :
         LET c == calls[s]
         IN  /\ c.op = "deleteUser" /\ c.pc = "getUserById"
             /\ calls' = [calls EXCEPT ![s] =
                    IF c.id \notin DOMAIN users
                    THEN Settled(c, FALSE, "User not found")
                    ELSE IF ~canDeleteUser(c.id, c.requestingUserId, c.requestingUserRole)
                    THEN Settled(c, TRUE, "Unauthorized to delete this user")
                    ELSE [c EXCEPT !.pc = "deleteUser", !.found = TRUE,
                                   !.invoked = TRUE]]
    /\ UNCHANGED users
    /\ UNCHANGED <<logger, admin>>

\* dataSource.deleteUser settles: it rejects when the record is gone.
DeleteUserDone ==
    /\ \E s \in Slots :
         LET c == calls[s]
         IN  /\ c.op = "deleteUser" /\ c.pc = "deleteUser"
             /\ IF c.id \in DOMAIN users
                THEN /\ users' = dataSourceDelete(users, c.id)
                     /\ calls' = [calls EXCEPT ![s] = Settled(c, TRUE, "ok")]
                ELSE /\ users' = users
                     /\ calls' = [calls EXCEPT ![s] =
                            Settled(c, TRUE, "Record to delete does not exist")]
    /\ UNCHANGED <<logger, admin>>

\* createUser(data) is called: it checks the format of the email and runs to
\* its first await, dataSource.getUserByEmail(data.email).
CreateUserCall ==
    /\ Cardinality(DOMAIN users) < MaxUsers
    /\ \E s \in FreeSlot(calls), email \in CreateEmails, role \in CreateRoles :
         LET c == [Idle EXCEPT !.op = "createUser", !.role = role,
                               !.status = Undefined,
                               !.data = [firstName |-> "New", email |-> email]]
         IN  calls' = [calls EXCEPT ![s] =
                IF ~isValidEmail(email)
                THEN Returned(c, "Invalid email format")
                ELSE [c EXCEPT !.pc = "getUserByEmail"]]
    /\ UNCHANGED users
    /\ UNCHANGED <<logger, admin>>

\* createUser called while no other call is in flight.
CreateUserAlone ==
    /\ \A s \in Slots : calls[s].pc \in {"idle", "settled"}
    /\ CreateUserCall

\* createUser resumes with the answer of getUserByEmail: the duplicate check,
\* the defaults, then dataSource.createUser(userData).
CreateUserChecks ==
    /\ \E s \in Slots :
         LET c == calls[s]
         IN  /\ c.op = "createUser" /\ c.pc = "getUserByEmail"
             /\ calls' = [calls EXCEPT ![s] =
                    IF getUserByEmail(users, c.data.email)
                    THEN Returned(c, "User with this email already exists")
                    ELSE [c EXCEPT
                            !.pc = "createUser", !.invoked = TRUE,
                            !.role = IF c.role # Undefined THEN c.role
                                     ELSE defaultRole,
                            !.status = IF c.status # Undefined THEN c.status
                                       ELSE defaultStatus]]
    /\ UNCHANGED users
    /\ UNCHANGED <<logger, admin>>

\* dataSource.createUser settles: the record is stored, or the unique index
\* on email rejects it.
CreateUserDone ==
    /\ \E s \in Slots :
         LET c == calls[s]
             r == dataSourceCreate(users,
                      [firstName |-> c.data.firstName, email |-> c.data.email,
                       role |-> c.role, status |-> c.status])
         IN  /\ c.op = "createUser" /\ c.pc = "createUser"
             /\ users' = r.users
             /\ calls' = [calls EXCEPT ![s] =
                    IF r.ok
                    THEN [Returned(c, "ok") EXCEPT
                            !.id = CHOOSE id \in DOMAIN r.users : id \notin DOMAIN users]
                    ELSE Returned(c, "Unique constraint failed")]
    /\ UNCHANGED <<logger, admin>>

\* getUsersByRole(role, requestingUserRole?) is called: the authorization
\* check, then the await of dataSource.getUsersByRole(role).
GetUsersByRoleCall ==
    /\ \E s \in FreeSlot(calls), role \in UserRole, by \in RequesterRoles :
         LET c == [Idle EXCEPT !.op = "getUsersByRole", !.role = role,
                               !.requestingUserRole = by]
         IN  calls' = [calls EXCEPT ![s] =
                IF ~canViewUsersByRole(by)
                THEN Returned(c, "Unauthorized to view users by role")
                ELSE [c EXCEPT !.pc = "getUsersByRole", !.invoked = TRUE]]
    /\ UNCHANGED users
    /\ UNCHANGED <<logger, admin>>

\* dataSource.getUsersByRole settles with the records of the role.
GetUsersByRoleDone ==
    /\ \E s \in Slots :
         LET c == calls[s]
         IN  /\ c.op = "getUsersByRole" /\ c.pc = "getUsersByRole"
             /\ calls' = [calls EXCEPT ![s] =
                    [Returned(c, "ok") EXCEPT !.list = getUsersByRole(users, c.role)]]
    /\ UNCHANGED users
    /\ UNCHANGED <<logger, admin>>

\* A request to POST /api/auth/login, with the answer of the backend.
LoginPOST ==
    /\ \E o \in LoginOutcomes :
         LET r == loginRoute(cookieStore, o)
         IN  /\ cookieStore' = r.cookies
             /\ http' = [route |-> "login", outcome |-> o, response |-> r.response]
    /\ UNCHANGED <<logger, service>>

\* A request to GET /api/auth/profile.
ProfileGET ==
    /\ \E o \in ProfileOutcomes :
         LET r == profileRoute(cookieStore, o)
         IN  /\ cookieStore' = r.cookies
             /\ http' = [route |-> "profile", outcome |-> o, response |-> r.response]
    /\ UNCHANGED <<logger, service>>

\* A request to POST /api/auth/logout.
LogoutPOST ==
    /\ LET r == logoutRoute(cookieStore)
       IN  /\ cookieStore' = r.cookies
           /\ http' = [route |-> "logout", outcome |-> NoOutcome,
                       response |-> r.response]
    /\ UNCHANGED <<logger, service>>

\* Time passes.
Tick ==
    /\ now < MaxTime
    /\ now' = now + 1
    /\ UNCHANGED <<service, admin>>
    /\ UNCHANGED <<phase, server, config, currentLogFile, logBuffer, flushTimer,
                   dirs, files, nextId, run, ev>>

\* The writer: construction, the log methods, the flush triggers, and the
\* setters the flush, rotation and retention decisions read.
Next ==
    \/ Constructor
    \/ Log
    \/ TimerFlush
    \/ Signal
    \/ setLogDir
    \/ setMaxFileSize
    \/ setMaxFiles
    \/ setBatchSize
    \/ Tick

Spec == Init /\ [][Next]_vars

\* The configuration surface: the level filter, a move of the log directory,
\* the flush interval.
NextConfig ==
    \/ Constructor
    \/ Log
    \/ TimerFlush
    \/ setLevel
    \/ setLogDirCustom
    \/ setFlushInterval
    \/ Tick

SpecConfig == Init /\ [][NextConfig]_vars

\* From construction to shutdown: the exit and signal listeners and destroy,
\* with rotation and retention at work and the getters called in between.
NextShutdown ==
    \/ Constructor
    \/ Log
    \/ TimerFlush
    \/ Signal
    \/ Exit
    \/ destroy
    \/ setMaxFileSize
    \/ setMaxFiles
    \/ GetLogs
    \/ GetLogFiles
    \/ Tick

SpecShutdown == Init /\ [][NextShutdown]_vars

\* Retrieval: entries with context and data, flushes and rotations, and the
\* two getters.
NextRead ==
    \/ Constructor
    \/ LogEntry
    \/ TimerFlush
    \/ setMaxFileSize
    \/ GetLogs
    \/ GetLogFiles
    \/ Tick

SpecRead == Init /\ [][NextRead]_vars

\* The UserService: calls of updateUser and deleteUser, interleaved at their
\* awaits.
NextUsers ==
    \/ UpdateUserCall
    \/ UpdateUserChecks
    \/ UpdateUserEmail
    \/ UpdateUserDone
    \/ DeleteUserCall
    \/ DeleteUserChecks
    \/ DeleteUserDone

\* The service runs on the server.
InitUsers == Init /\ server

SpecUsers == InitUsers /\ [][NextUsers]_vars

\* Changes of email: calls of updateUser with an email, interleaved at their
\* awaits.
NextEmail ==
    \/ UpdateEmailCall
    \/ UpdateUserChecks
    \/ UpdateUserEmail
    \/ UpdateUserDone

SpecEmail == InitUsers /\ [][NextEmail]_vars

\* The timer's callback runs and its append goes through.
TimerFlushOk == TimerFlush /\ ev'.appended

\* The logger in service between construction and destroy(): log calls, the
\* timer and the setters of level, batch size and flush interval.  While the
\* interval timer runs, its callback keeps being called, and an append that
\* can succeed eventually does.
NextLive ==
    \/ Constructor
    \/ Log
    \/ TimerFlush
    \/ setLevel
    \/ setBatchSize
    \/ setFlushInterval
    \/ Tick

SpecLive == Init /\ [][NextLive]_vars /\ WF_vars(TimerFlushOk)

\* The auth routes of the admin app, one request at a time.
NextAdmin ==
    \/ LoginPOST
    \/ ProfileGET
    \/ LogoutPOST

SpecAdmin == InitUsers /\ [][NextAdmin]_vars

\* Registration and listing: calls of createUser and getUsersByRole,
\* interleaved at their awaits.
NextCreate ==
    \/ CreateUserCall
    \/ CreateUserChecks
    \/ CreateUserDone
    \/ GetUsersByRoleCall
    \/ GetUsersByRoleDone

SpecCreate == InitUsers /\ [][NextCreate]_vars

\* Registration with each createUser awaited before the next is called.
NextCreateSeq ==
    \/ CreateUserAlone
    \/ CreateUserChecks
    \/ CreateUserDone

SpecCreateSeq == InitUsers /\ [][NextCreateSeq]_vars

\* ----------------------------------------------------------- properties
Range(seq) == {seq[i] : i \in DOMAIN seq}

\* Every line some file holds.
LinesOf(fls) == UNION {Range(fls[p].content) : p \in DOMAIN fls}

IsPrefix(a, b) == Len(a) <= Len(b) /\ SubSeq(b, 1, Len(a)) = a

\* The write target is the day-named file of the current date in the
\* configured directory: the file rotateLogsIfNeeded looks at.
TargetIsToday == currentLogFile = Join(config.logDir, getLogFileName(now))

\* A step of a handler (ev' tells what it did), not of the clock.
HandlerStep == now' = now

\* The name a rotation at this instant gives.
RotatedNow == Join(config.logDir, rotatedFileName(now))

\* C1: from an empty buffer, with no timer tick and no fs failure, after n
\* accepted log calls there have been n div batchSize flushes and n mod
\* batchSize lines are buffered; a call that leaves lines in the buffer has
\* written nothing.
C1_BatchCount ==
    run.ok =>
        /\ run.flushes = run.n \div config.batchSize
        /\ Len(logBuffer) = run.n % config.batchSize
        /\ (ev.op = "log" /\ ev.accepted /\ logBuffer # <<>> => ~ev.appended)

\* C1 witness: batchSize 2 and three accepted calls m1, m2, m3: one flush,
\* the file holds m1, m2 and m3 is buffered.
C1_Witness ==
    /\ run.ok /\ config.batchSize = 2 /\ run.n = 3 /\ run.flushes = 1
    /\ Len(logBuffer) = 1
    /\ currentLogFile \in DOMAIN files
    /\ Len(files[currentLogFile].content) = 2

\* C2 as stated: the buffer never holds more than batchSize lines.
C2_Original == Len(logBuffer) <= config.batchSize

\* C2 amended: the buffer gets longer than batchSize only in a step that
\* lowers batchSize or in a log call whose flush fails to append; every other
\* step keeps the buffer within batchSize.
C2_BoundBrokenOnlyBy ==
    [][(HandlerStep /\ Len(logBuffer) <= config.batchSize
            /\ Len(logBuffer') > config'.batchSize)
         => (config'.batchSize < config.batchSize \/ ev'.appendFailed)]_vars

\* C2 witness: a log call filled the buffer, its flush failed, and a later
\* call left more than batchSize lines buffered.
C2_Witness ==
    /\ ev.op = "log" /\ ev.accepted /\ ev.appendFailed
    /\ Len(logBuffer) > config.batchSize

\* C3 as stated: after a failed append the buffer is empty.
C3_Original == ev.appendFailed => logBuffer = <<>>

\* C3 amended: a failed append changes no file and keeps every line of the
\* flush in the buffer, in order; a flush whose append succeeds empties the
\* buffer into the files, so the lines of a failed flush are written by the
\* next successful one.
C3_FailedFlushKeepsLines ==
    [][/\ (HandlerStep /\ ev'.appendFailed) =>
            /\ files' = files
            /\ logBuffer' # <<>>
            /\ IsPrefix(logBuffer, logBuffer')
       /\ (HandlerStep /\ ev'.appended /\ ev'.cleanups = 0) =>
            /\ logBuffer' = <<>>
            /\ Range(logBuffer) \subseteq LinesOf(files')]_vars

\* C3 witness: the flush of a timer tick failed and the lines are still
\* buffered.
C3_Witness == ev.op = "flush" /\ ev.appendFailed /\ Len(logBuffer) >= 1

\* C4 as stated: a flush that appends and leaves its file at or over
\* maxFileSize has renamed it and run the cleanup when it returns.
C4_Original == (ev.appended /\ ev.oversized) => (ev.renames = 1 /\ ev.cleanups = 1)

\* C4 amended: such a flush calls rotateLogsIfNeeded before it returns unless
\* its own stat throws; when the write target is the day-named file of the
\* current date and no fs call throws, the file has been renamed to the
\* timestamp-suffixed name (the day-named file is gone) and the cleanup has
\* run once.
C4_RotationInsideFlush ==
    [][(HandlerStep /\ ev'.appended /\ ev'.oversized) =>
         /\ (~ev'.flushStatFailed => ev'.rotateCalled)
         /\ (TargetIsToday /\ ~IoFailure(ev')) =>
              /\ ev'.renames = 1
              /\ ev'.cleanups = 1
              /\ currentLogFile \notin DOMAIN files']_vars

\* C4 witness: a flush left its file oversized, renamed it and cleaned up.
C4_Witness ==
    /\ ev.appended /\ ev.oversized /\ ev.renames = 1 /\ ev.cleanups = 1
    /\ currentLogFile \notin DOMAIN files

\* C5 as stated: the write that takes the file over the threshold does not
\* rotate it (the rotation waits for the following write).
C5_Original == (ev.appended /\ ev.oversized /\ ~ev.wasOversized) => ev.renames = 0

\* C5 amended: the write that takes the file from below to at or over the
\* threshold rotates it, once, in the same call (write target of the current
\* date, no fs failure); a write that leaves the file below the threshold
\* rotates nothing, and no call rotates twice.
C5_RotationDuringOverflowingWrite ==
    [][/\ (HandlerStep /\ ev'.appended /\ ev'.oversized /\ ~ev'.wasOversized
              /\ TargetIsToday /\ ~IoFailure(ev')) => ev'.renames = 1
       /\ (ev'.appended /\ ~ev'.oversized) => ev'.renames = 0
       /\ ev'.renames <= 1]_vars

\* C5 witness: a log call of one line took the file over the threshold and
\* rotated it in the same call.
C5_Witness ==
    /\ ev.op = "log" /\ config.batchSize = 1
    /\ ev.appended /\ ev.oversized /\ ~ev.wasOversized /\ ev.renames = 1

\* C6 as stated: a write to a file already at or over maxFileSize leaves the
\* previous contents under a rotated name and a day-named file with only the
\* new lines.
C6_Original ==
    [][(HandlerStep /\ ev'.appended /\ ev'.wasOversized) =>
         /\ currentLogFile \in DOMAIN files'
         /\ Range(files'[currentLogFile].content)
                \cap Range(files[currentLogFile].content) = {}
         /\ \E p \in DOMAIN files' :
                /\ p.name.kind = "rot"
                /\ files'[p].content = files[currentLogFile].content]_vars

\* C6 amended: such a write appends to the oversized file first and rotates
\* afterwards (write target of the current date, no fs failure): no day-named
\* file exists until the next write, and the rotated file holds the previous
\* contents followed by the new lines, unless the cleanup of the same call
\* deleted a file that new.
C6_OversizedThenWrite ==
    [][(HandlerStep /\ ev'.appended /\ ev'.wasOversized /\ TargetIsToday
            /\ ~IoFailure(ev')) =>
         /\ currentLogFile \notin DOMAIN files'
         /\ (ev'.deletedMax < now =>
                /\ RotatedNow \in DOMAIN files'
                /\ IsPrefix(files[currentLogFile].content \o logBuffer,
                            files'[RotatedNow].content)
                /\ Len(files'[RotatedNow].content)
                       <= Len(files[currentLogFile].content) + Len(logBuffer) + 1)]_vars

\* C6 witness: a write to an oversized file was rotated away with it.
C6_Witness ==
    /\ ev.appended /\ ev.wasOversized /\ ev.renames = 1
    /\ \E p \in DOMAIN files : p.name.kind = "rot" /\ Len(files[p].content) >= 3

\* C7 as stated: after any cleanup at most maxFiles log files remain.
C7_Original ==
    ev.cleanups = 1 => Cardinality(LogFilesIn(files, config.logDir)) <= config.maxFiles

\* C7 amended: after a cleanup in which no fs call throws, over M log files:
\* if M > maxFiles exactly maxFiles remain, otherwise all M; every file that
\* remains is at least as new as every file deleted.
C7_CleanupKeepsNewest ==
    (ev.cleanups = 1 /\ ~ev.cleanupFailed /\ ~ev.unlinkFailed) =>
        LET remain == LogFilesIn(files, config.logDir)
        IN  /\ Cardinality(remain) <= config.maxFiles
            /\ (ev.listed > config.maxFiles => Cardinality(remain) = config.maxFiles)
            /\ (ev.listed <= config.maxFiles => Cardinality(remain) = ev.listed)
            /\ \A r \in remain : files[r].mtime >= ev.deletedMax

\* C7 witness: a cleanup with maxFiles = 1 found more files and kept one.
C7_Witness ==
    /\ ev.cleanups = 1 /\ ~ev.cleanupFailed /\ ~ev.unlinkFailed
    /\ config.maxFiles = 1 /\ ev.listed > 1
    /\ Cardinality(LogFilesIn(files, config.logDir)) = 1
    /\ ev.deletedMax >= 0

\* C8: cleanup never deletes the file currentLogFile names.
C8_NeverDeletesTarget == ~ev.deletedTarget

\* C9: the write target is always a day-named file, and a file under a
\* rotated name is never changed again (only a later rotation at the same
\* instant replaces it).
C9_RotatedNeverWritten ==
    [][/\ (currentLogFile' # NoFile => currentLogFile'.name.kind = "day")
       /\ \A p \in DOMAIN files \cap DOMAIN files' :
            (p.name.kind = "rot" /\ ~(HandlerStep /\ ev'.renames = 1 /\ p = RotatedNow))
                => files'[p] = files[p]]_vars

\* C9 witness: a flush appended while a rotated file existed.
C9_Witness ==
    /\ ev.appended /\ ev.renames = 0
    /\ \E p \in DOMAIN files : p.name.kind = "rot"
    /\ currentLogFile \in DOMAIN files

\* C10: a failed rename leaves the write target unchanged, runs no cleanup,
\* deletes no file and loses no written or buffered line; the next flush
\* appends to the same, still oversized file.
C10_RenameFailureKeepsTarget ==
    [][/\ (HandlerStep /\ ev'.renameFailed) =>
            /\ currentLogFile' = currentLogFile
            /\ ev'.cleanups = 0
            /\ LinesOf(files) \cup Range(logBuffer)
                    \subseteq LinesOf(files') \cup Range(logBuffer')
            /\ DOMAIN files \subseteq DOMAIN files'
       /\ (HandlerStep /\ ev.renameFailed /\ ev'.appended) =>
            /\ ev'.wasOversized
            /\ (currentLogFile \in DOMAIN files' =>
                    IsPrefix(files[currentLogFile].content \o logBuffer,
                             files'[currentLogFile].content))]_vars

\* C10 witness: a flush appended, the rename of the oversized file failed,
\* and the file is still the write target.
C10_Witness ==
    /\ ev.appended /\ ev.renameFailed
    /\ currentLogFile \in DOMAIN files
    /\ statSize(files, currentLogFile) >= config.maxFileSize

\* C11: when unlinkSync throws for some files of a cleanup, every other file
\* beyond the newest maxFiles is still deleted (what remains is the maxFiles
\* kept and the files whose unlink threw), and the enclosing rotation goes on
\* to set the write target.
C11_UnlinkFailureTolerated ==
    [][(HandlerStep /\ ev'.cleanups = 1 /\ ev'.unlinkFailed) =>
         /\ ev'.unlinkFailures >= 1
         /\ Cardinality(LogFilesIn(files', config'.logDir))
                = config'.maxFiles + ev'.unlinkFailures
         /\ currentLogFile' = Join(config'.logDir, getLogFileName(now))]_vars

\* C11 witness: a cleanup had two files to delete, one unlink threw and the
\* other file is gone.
C11_Witness ==
    /\ ev.cleanups = 1 /\ ev.unlinkFailures = 1
    /\ ev.listed >= config.maxFiles + 2
    /\ Cardinality(LogFilesIn(files, config.logDir)) = config.maxFiles + 1
    /\ currentLogFile = Join(config.logDir, getLogFileName(now))

\* C12: once file logging is disabled (the browser; a failed mkdirSync in the
\* constructor or in setLogDir) it stays disabled whatever is called, and a
\* log call then changes neither the buffer nor any file, while it still
\* prints to the console every message the level filter lets through.
C12_DisabledForGood ==
    [][/\ (~config.enableFileLogging => ~config'.enableFileLogging)
       /\ (HandlerStep /\ ev'.initFailed /\ ev'.op = "init")
                => ~config'.enableFileLogging
       /\ (HandlerStep /\ ~config.enableFileLogging /\ ev'.op = "log") =>
            /\ logBuffer' = logBuffer
            /\ files' = files
            /\ ~ev'.accepted /\ ~ev'.appended
            /\ ev'.printed = ~ev'.above]_vars

\* C12 witness: on the server, setLogDir moved the logs to a directory that
\* could not be created while a line was buffered; a later log call was
\* printed and not buffered.
C12_Witness ==
    /\ server /\ ~config.enableFileLogging
    /\ config.logDir # LOG_DIR_NAME /\ config.logDir \notin dirs
    /\ currentLogFile # NoFile /\ Len(logBuffer) = 1
    /\ ev.op = "log" /\ ev.printed /\ ~ev.accepted

C14_TimerRestarted ==
    [][(setFlushInterval /\ flushTimer.running) =>
            /\ flushTimer'.running
            /\ flushTimer'.interval = config'.flushInterval]_vars

\* C15: a log call with a level numerically above config.level has no
\* effect: nothing is printed, the buffer, the files, the configuration, the
\* write target and the timer are as before, and no flush ran.
C15_FilteredCallHasNoEffect ==
    [][(HandlerStep /\ ev'.op = "log" /\ ev'.above) =>
            /\ ~ev'.printed /\ ~ev'.accepted
            /\ ~ev'.appended /\ ~ev'.appendFailed /\ ~ev'.rotateCalled
            /\ UNCHANGED <<logBuffer, files, dirs, config, currentLogFile,
                           flushTimer, nextId>>]_vars

\* C15 witness: with the level set to WARN and a line in the buffer, a call
\* above that level (info or debug) was dropped.
C15_Witness ==
    /\ ev.op = "log" /\ ev.above /\ config.level = WARN
    /\ config.enableFileLogging /\ logBuffer # <<>>
    /\ ~ev.printed /\ ~ev.accepted

\* The lines accepted so far, by their numbers.
AcceptedIds == 1 .. (nextId - 1)

\* C16 as stated: after the flush of exit or destroy, if its append
\* succeeded, the buffer is empty and every line accepted so far is in some
\* log file.
C16_Original ==
    (ev.op \in {"exit", "destroy"} /\ ev.appended) =>
        /\ logBuffer = <<>>
        /\ \A i \in AcceptedIds : \E l \in LinesOf(files) : l.id = i

\* C16 amended: the flush of the timer, of a signal, of exit and of destroy,
\* when its append succeeds, leaves the buffer empty and has appended the
\* buffered lines to the write target; they are in a log file unless the
\* cleanup of the rotation this flush triggered deleted a file that new.  A
\* flush with nothing to append changes no file.  destroy stops the timer and
\* forgets it; exit ends the process.
C16_ShutdownFlush ==
    [][(HandlerStep /\ ev'.op \in {"flush", "exit", "destroy"}) =>
         /\ ev'.appended =>
                /\ logBuffer # <<>> /\ logBuffer' = <<>>
                /\ (ev'.cleanups = 0 \/ ev'.deletedMax < now)
                        => Range(logBuffer) \subseteq LinesOf(files')
                /\ ev'.cleanups = 0 =>
                        /\ currentLogFile \in DOMAIN files'
                        /\ files'[currentLogFile].content
                             = (IF currentLogFile \in DOMAIN files
                                THEN files[currentLogFile].content ELSE <<>>)
                               \o logBuffer
         /\ (~ev'.appended => files' = files /\ logBuffer' = logBuffer)
         /\ (ev'.op = "destroy" => flushTimer' = NoTimer)
         /\ (ev'.op = "exit" => phase' = "exited")]_vars

\* C16 witness: destroy flushed two buffered lines into the write target and
\* stopped the timer.
C16_Witness ==
    /\ ev.op = "destroy" /\ ev.appended /\ logBuffer = <<>>
    /\ flushTimer = NoTimer
    /\ currentLogFile \in DOMAIN files
    /\ Len(files[currentLogFile].content) >= 2

\* C17: when readdirSync succeeds, getLogFiles returns the names of all the
\* log files of the directory, and of any two of them the one of the newer
\* file (the later mtime) comes earlier in the list.
C17_NewestFirst ==
    (ev.op = "get" /\ ev.ret.kind = "list" /\ config.enableFileLogging
            /\ ~ev.readFailed) =>
        LET list == ev.ret.list
            mtime(n) == files[Join(config.logDir, n)].mtime
        IN  /\ Range(list) = {p.name : p \in LogFilesIn(files, config.logDir)}
            /\ \A i, j \in DOMAIN list :
                    mtime(list[i]) > mtime(list[j]) => i < j

\* The day-named file getLogs() reads when it is given no date.
TodaysFile == Join(config.logDir, getLogFileName(now))

\* C18 as stated: every accepted entry is in the text getLogs() returns for
\* the current day, and one given the context "X" and the data {a: 1} is
\* there as a line with [X] and the Data block.
C18_Original ==
    (ev.op = "get" /\ ev.date = NoDate /\ config.enableFileLogging
            /\ ~ev.readFailed) =>
        \A i \in AcceptedIds :
            /\ ev.ret.kind = "text"
            /\ \E l \in Range(ev.ret.text) : l.id = i

\* C18 amended: an accepted entry becomes a line that has "[X]" when the
\* context is "X" and the Data block with the pretty-printed data when data
\* is given.  getLogs() returns the text of the day-named file of the current
\* date as it is on disk: a line is in it once a flush has appended it to that
\* file and until the file is rotated or the date changes; the lines still
\* buffered are not in it, and without that file the result is null.
C18_RoundTripAfterFlush ==
    [][/\ (HandlerStep /\ ev'.op = "log" /\ ev'.accepted) =>
            \E l \in Range(logBuffer') \cup LinesOf(files') :
                /\ l.id = nextId
                /\ l.contextStr = (IF ev'.given.context = "X" THEN "[X]" ELSE "")
                /\ l.dataStr = (IF ev'.given.data.present
                                THEN "\n  Data: {\n  \"a\": 1\n}" ELSE "")
       /\ (HandlerStep /\ ev'.op = "get" /\ ev'.ret.kind = "text"
                /\ ev'.date = NoDate) =>
            /\ TodaysFile \in DOMAIN files
            /\ ev'.ret.text = files[TodaysFile].content
            /\ \A l \in Range(logBuffer) : l \notin Range(ev'.ret.text)
       /\ (HandlerStep /\ ev'.op = "get" /\ ev'.ret.kind = "null"
                /\ ev'.date = NoDate /\ ~ev'.readFailed) =>
            (TodaysFile \notin DOMAIN files \/ ~config.enableFileLogging)]_vars

\* C18 witness: getLogs() returned the flushed line of an entry with the
\* context "X" and the data {a: 1}, while a later line was still buffered.
C18_Witness ==
    /\ ev.op = "get" /\ ev.date = NoDate /\ ev.ret.kind = "text"
    /\ logBuffer # <<>>
    /\ \E l \in Range(ev.ret.text) :
            l.contextStr = "[X]" /\ l.dataStr = "\n  Data: {\n  \"a\": 1\n}"

\* The call in slot s resumes from getUserById with its target on record.
ChecksRun(s, op) ==
    /\ calls[s].op = op /\ calls[s].pc = "getUserById"
    /\ calls'[s].pc # "getUserById"
    /\ calls[s].id \in DOMAIN users

C20_DeleteAuthorization ==
    [][/\ \A s \in Slots :
            /\ ChecksRun(s, "deleteUser") =>
                LET c == calls[s]
                    allowed == /\ c.requestingUserId # c.id
                               /\ c.requestingUserRole = SUPER_ADMIN
                IN  /\ (calls'[s].result = "Unauthorized to delete this user")
                            <=> ~allowed
                    /\ ~allowed => /\ calls'[s].pc = "settled"
                                    /\ ~calls'[s].invoked
                    /\ allowed => /\ calls'[s].pc = "deleteUser"
                                   /\ calls'[s].invoked
                    /\ users' = users
            /\ (calls[s].op = "deleteUser" /\ calls[s].pc = "deleteUser"
                    /\ calls'[s].pc = "settled") =>
                    calls[s].id \notin DOMAIN users'
       /\ \A id \in DOMAIN users \ DOMAIN users' :
            \E s \in Slots :
                /\ calls[s].op = "deleteUser" /\ calls[s].pc = "deleteUser"
                /\ calls[s].id = id /\ calls[s].requestingUserId # id
                /\ calls[s].requestingUserRole = SUPER_ADMIN
                /\ calls'[s].result = "ok"]_vars

\* C20 witness: a delete (by a SUPER_ADMIN who is not the target) settled and
\* the record is gone, and a refused delete left the other record in place.
C20_Witness ==
    /\ calls[1].op = "deleteUser" /\ calls[1].result = "ok"
    /\ calls[1].id \notin DOMAIN users
    /\ calls[2].op = "deleteUser"
    /\ calls[2].result = "Unauthorized to delete this user"
    /\ calls[2].id \in DOMAIN users

\* C21: a requester with role MANAGER who is not the target is refused by
\* updateUser when the target's role is MANAGER or SUPER_ADMIN: the call
\* settles with 'Unauthorized to modify this user' and the data source's
\* updateUser is not called.
C21_ManagerCannotModifyPeers ==
    [][\A s \in Slots :
         (/\ ChecksRun(s, "updateUser")
          /\ calls[s].requestingUserRole = MANAGER
          /\ calls[s].requestingUserId # calls[s].id
          /\ users[calls[s].id].role \in {MANAGER, SUPER_ADMIN}) =>
                /\ calls'[s].result = "Unauthorized to modify this user"
                /\ ~calls'[s].invoked]_vars

\* No two records have the same email.
NoSharedEmail ==
    \A a, b \in DOMAIN users : users[a].email = users[b].email => a = b

\* The email has the shape local@domain.tld.
WellFormed(email) == email.local # "" /\ email.domain # "" /\ email.tld # ""

\* C22: createUser, each call awaited before the next, settles with 'Invalid
\* email format' exactly when the email lacks the shape local@domain.tld, and
\* with 'User with this email already exists' exactly when some record has
\* that very email (letter case included); in both cases the data source's
\* createUser is not called and no record is added.  Every other call adds
\* one record with the email, which no record had, so no two records ever
\* share an email.
C22_CreateRejects ==
    /\ []NoSharedEmail
    /\ [][\A s \in Slots :
            LET e == calls'[s].data.email
            IN  /\ (/\ calls[s].pc \in {"idle", "settled"}
                    /\ calls'[s].op = "createUser"
                    /\ calls'[s] # calls[s]) =>
                        /\ (calls'[s].result = "Invalid email format")
                                <=> ~WellFormed(e)
                        /\ ~WellFormed(e) => calls'[s].pc = "settled"
                        /\ WellFormed(e) => calls'[s].pc = "getUserByEmail"
                        /\ ~calls'[s].invoked
                        /\ users' = users
                /\ (/\ calls[s].op = "createUser"
                    /\ calls[s].pc = "getUserByEmail"
                    /\ calls'[s].pc # "getUserByEmail") =>
                        LET onFile == \E id \in DOMAIN users : users[id].email = e
                        IN  /\ (calls'[s].result =
                                    "User with this email already exists")
                                    <=> onFile
                            /\ onFile => /\ calls'[s].pc = "settled"
                                         /\ ~calls'[s].invoked
                            /\ ~onFile => calls'[s].pc = "createUser"
                            /\ users' = users
                /\ (/\ calls[s].op = "createUser"
                    /\ calls[s].pc = "createUser"
                    /\ calls'[s].pc = "settled") =>
                        /\ calls'[s].result = "ok"
                        /\ \A id \in DOMAIN users : users[id].email # e
                        /\ DOMAIN users' = DOMAIN users \cup {calls'[s].id}
                        /\ calls'[s].id \notin DOMAIN users
                        /\ users'[calls'[s].id].email = e
                        /\ \A id \in DOMAIN users : users'[id] = users[id]]_vars

\* C22 witness: a record with the email Ann@x.io was created next to the one
\* with ann@x.io, and a later call with an email on file was refused.
C22_Witness ==
    /\ \E id \in DOMAIN users \ DOMAIN SeedUsers : users[id].email.local = "Ann"
    /\ \E id \in DOMAIN users : users[id].email.local = "ann"
    /\ calls[1].op = "createUser"
    /\ calls[1].result = "User with this email already exists"
    /\ ~calls[1].invoked

\* The call in slot s was let through by the authorization check.
Authorized(c) ==
    \/ c.requestingUserId = c.id
    \/ c.requestingUserRole \in {SUPER_ADMIN, MANAGER}

\* C23: updateUser by an authorized caller on an existing target: an email
\* that is supplied and lacks the shape local@domain.tld gives 'Invalid email
\* format'; a well-formed email equal to the target's current one goes to the
\* data source with no uniqueness lookup, and one that differs is looked up
\* first; the lookup finding a record gives 'Email already in use' with the
\* store unchanged and no write requested.
C23_EmailValidated ==
    [][\A s \in Slots :
         LET c == calls[s]
             e == c.data.email
         IN  /\ (ChecksRun(s, "updateUser") /\ Authorized(c) /\ e # NoEmail) =>
                    /\ ~WellFormed(e) =>
                            /\ calls'[s].result = "Invalid email format"
                            /\ ~calls'[s].invoked
                    /\ (WellFormed(e) /\ e = users[c.id].email) =>
                            /\ calls'[s].pc = "updateUser"
                            /\ calls'[s].invoked
                    /\ (WellFormed(e) /\ e # users[c.id].email) =>
                            calls'[s].pc = "getUserByEmail"
                    /\ users' = users
             /\ (/\ c.op = "updateUser" /\ c.pc = "getUserByEmail"
                 /\ calls'[s].pc # "getUserByEmail") =>
                    /\ (calls'[s].result = "Email already in use")
                            <=> \E id \in DOMAIN users : users[id].email = e
                    /\ calls'[s].result = "Email already in use" =>
                            ~calls'[s].invoked
                    /\ users' = users]_vars

\* C24: getUsersByRole asks the data source, and later returns the users of
\* the role, exactly when the requesting role is MANAGER or SUPER_ADMIN; for
\* USER or a missing role it settles at once with 'Unauthorized to view users
\* by role', the data source is not queried and no user is returned.
C24_ListAuthorization ==
    [][\A s \in Slots :
         LET allowed == calls'[s].requestingUserRole \in {MANAGER, SUPER_ADMIN}
         IN  /\ (/\ calls[s].pc \in {"idle", "settled"}
                 /\ calls'[s].op = "getUsersByRole"
                 /\ calls'[s] # calls[s]) =>
                    /\ allowed => /\ calls'[s].pc = "getUsersByRole"
                                  /\ calls'[s].invoked
                    /\ ~allowed => /\ calls'[s].pc = "settled"
                                   /\ calls'[s].result =
                                        "Unauthorized to view users by role"
                                   /\ ~calls'[s].invoked
                    /\ calls'[s].list = {}
                    /\ users' = users
             /\ (/\ calls[s].op = "getUsersByRole"
                 /\ calls[s].pc = "getUsersByRole"
                 /\ calls'[s].pc = "settled") =>
                    /\ allowed
                    /\ calls'[s].result = "ok"
                    /\ calls'[s].list =
                         {id \in DOMAIN users : users[id].role = calls[s].role}
                    /\ users' = users]_vars

\* C24 witness: a MANAGER was given the managers, a created one among them,
\* and a caller with no role was refused.
C24_Witness ==
    /\ calls[1].op = "getUsersByRole" /\ calls[1].result = "ok"
    /\ calls[1].requestingUserRole = MANAGER /\ calls[1].role = MANAGER
    /\ calls[1].list \ DOMAIN SeedUsers # {}
    /\ calls[2].op = "getUsersByRole"
    /\ calls[2].requestingUserRole = Undefined
    /\ calls[2].result = "Unauthorized to view users by role"

\* File a comes before file b in rotation order: by the day of the name; of
\* one day, the rotated files by their time and the day-named file last.
RotationBefore(a, b) ==
    \/ DayOf(a.name) < DayOf(b.name)
    \/ /\ DayOf(a.name) = DayOf(b.name)
       /\ \/ a.name.kind = "rot" /\ b.name.kind = "day"
          \/ a.name.kind = "rot" /\ b.name.kind = "rot" /\ a.name.stamp < b.name.stamp

\* The contents of the files ps of fls, one after the other in rotation order.
RECURSIVE Contents(_, _)
Contents(fls, ps) ==
    IF ps = {} THEN <<>>
    ELSE LET p == CHOOSE q \in ps : \A r \in ps \ {q} : ~RotationBefore(r, q)
         IN  fls[p].content \o Contents(fls, ps \ {p})

\* The numbers of the lines of a sequence.
Ids(lines) == [i \in DOMAIN lines |-> lines[i].id]

\* The lines on file in rotation order, then the buffered ones.
Written == Ids(Contents(files, DOMAIN files) \o logBuffer)

\* A handler ran and none of its fs calls threw.
CleanStep == HandlerStep /\ ev' # ev /\ ~IoFailure(ev')

\* C25 as claimed: over log calls and flushes without I/O failure the files
\* in rotation order, followed by the buffer, hold the accepted lines in the
\* order they were logged, each once: a log call or a flush changes that
\* sequence only by adding the line it accepted at the end.
C25_Original ==
    [][(CleanStep /\ ev'.op \in {"log", "flush"}) =>
         Written' = Written \o (IF ev'.accepted THEN <<nextId>> ELSE <<>>)]_vars

\* C25: a flush whose fs calls succeed leaves the buffer empty; the files in
\* rotation order, followed by the buffer, always hold lines in the order
\* they were logged, none twice; a handler adds at most the line it accepted
\* and takes lines away only by deleting files in cleanupOldLogs or by
\* renaming onto a rotated file of the same instant; without either, what a
\* flush appends is the buffer, whole and in order, at the end of the write
\* target.
C25_FlushKeepsOrder ==
    [][CleanStep =>
         LET new == IF ev'.accepted THEN <<nextId>> ELSE <<>>
             lost == (Range(Written) \cup Range(new)) \ Range(Written')
             replaced == ev'.renames > 0 /\ RotatedNow \in DOMAIN files
         IN  /\ ev'.appended => logBuffer' = <<>>
             /\ \A i, j \in DOMAIN Written' : i < j => Written'[i] < Written'[j]
             /\ Range(Written') \subseteq Range(Written) \cup Range(new)
             /\ lost # {} => (ev'.deletedMax >= 0 \/ replaced)
             /\ (ev'.deletedMax < 0 /\ ~replaced) => Written' = Written \o new
             /\ (ev'.appended /\ ev'.renames = 0 /\ ev'.deletedMax < 0) =>
                    /\ currentLogFile \in DOMAIN files'
                    /\ Ids(files'[currentLogFile].content) =
                         Ids(IF currentLogFile \in DOMAIN files
                             THEN files[currentLogFile].content ELSE <<>>)
                         \o Ids(logBuffer) \o new]_vars

\* C25 witness: a flush appended two buffered lines to a file that held one,
\* with no rotation, and the three lines are on file in order.
C25_Witness ==
    /\ ev.appended /\ ~IoFailure(ev) /\ ev.renames = 0 /\ ev.deletedMax < 0
    /\ logBuffer = <<>>
    /\ currentLogFile \in DOMAIN files
    /\ Ids(files[currentLogFile].content) = <<1, 2, 3>>
    /\ ev.op = "flush"

\* Line i is in the buffer.
Buffered(i) == \E k \in DOMAIN logBuffer : logBuffer[k].id = i

\* C26: with the timer's callback fair and appends eventually succeeding,
\* every line accepted into the buffer eventually leaves it through a flush
\* that appended it to a log file, whatever setters are called in between.
C26_EventuallyWritten ==
    \A i \in 1..MaxLogs : Buffered(i) ~> ~Buffered(i)

\* The day-named file of the current date in the configured directory.
TodayPath == Join(config'.logDir, getLogFileName(now))

C28_AtMostOneRecord ==
    /\ \A e \in CreateEmails :
            Cardinality({id \in DOMAIN users : users[id].email = e}) <= 1
    /\ \A s, r \in Slots :
            (/\ s # r
             /\ calls[s].op = "createUser" /\ calls[r].op = "createUser"
             /\ calls[s].data.email = calls[r].data.email
             /\ calls[s].result = "ok" /\ calls[r].pc = "settled") =>
                    /\ calls[r].result # "ok"
                    /\ calls[r].id \notin DOMAIN users

\* C28 witness: two calls with the same email both found no record and both
\* asked the data source to create; one record was stored and the other
\* create was rejected.
C28_Witness ==
    /\ calls[1].op = "createUser" /\ calls[2].op = "createUser"
    /\ calls[1].data.email = calls[2].data.email
    /\ calls[1].invoked /\ calls[2].invoked
    /\ calls[1].pc = "settled" /\ calls[2].pc = "settled"
    /\ {calls[1].result, calls[2].result} = {"ok", "Unique constraint failed"}

\* The errors updateUser and deleteUser throw themselves.
Refusals ==
    {"User not found", "Unauthorized to modify this user",
     "Unauthorized to delete this user", "Invalid email format",
     "Email already in use"}

\* C29: when updateUser or deleteUser resumes from getUserById, a target that
\* is not on record gives 'User not found' whoever the requester is, and a
\* target on record with a requester the rule refuses gives the
\* 'Unauthorized ...' error of the operation.  A call that settles with one of
\* the service's own errors has not called the data source's updateUser or
\* deleteUser, and the store is as it was; the store changes only when such a
\* data source call settles.
C29_ExistenceBeforeAuthorization ==
    [][/\ \A s \in Slots :
            LET c == calls[s]
            IN  /\ (/\ c.op \in {"updateUser", "deleteUser"}
                    /\ c.pc = "getUserById"
                    /\ calls'[s].pc # "getUserById") =>
                        /\ c.id \notin DOMAIN users =>
                                /\ calls'[s].result = "User not found"
                                /\ calls'[s].pc = "settled"
                                /\ ~calls'[s].found
                        /\ (c.id \in DOMAIN users /\ c.op = "updateUser"
                                /\ ~Authorized(c)) =>
                                calls'[s].result = "Unauthorized to modify this user"
                        /\ (c.id \in DOMAIN users /\ c.op = "deleteUser"
                                /\ ~(c.requestingUserId # c.id
                                        /\ c.requestingUserRole = SUPER_ADMIN)) =>
                                calls'[s].result = "Unauthorized to delete this user"
                        /\ c.id \in DOMAIN users => calls'[s].result # "User not found"
                /\ (/\ c.pc \notin {"idle", "settled"}
                    /\ calls'[s].pc = "settled"
                    /\ calls'[s].result \in Refusals) =>
                        /\ ~c.invoked
                        /\ ~calls'[s].invoked
                        /\ users' = users
       /\ users' # users =>
            \E s \in Slots :
                /\ calls[s].invoked
                /\ calls[s].pc \in {"updateUser", "deleteUser"}
                /\ calls'[s].result = "ok"]_vars

\* C29 witness: a record was deleted, and a later call on its id settled
\* with 'User not found' without reaching the data source's write.
C29_Witness ==
    /\ calls[1].op = "deleteUser" /\ calls[1].result = "ok"
    /\ calls[2].op = "updateUser" /\ calls[2].id = calls[1].id
    /\ calls[2].result = "User not found"
    /\ ~calls[2].found /\ ~calls[2].invoked
    /\ calls[2].id \notin DOMAIN users

\* The backend accepted the login and the user is a manager or a super admin.
Admitted(o) ==
    /\ o.kind = "returns" /\ o.success /\ o.hasData
    /\ o.role \in {MANAGER, SUPER_ADMIN}

\* C30: the admin login route sets the accessToken, refreshToken and
\* adminRole cookies only when the backend login succeeded and the user's
\* role is MANAGER or SUPER_ADMIN, and then sets all three from the answer;
\* for any other role it answers 403 and sets no cookie; a failed login sets
\* no cookie either; so the adminRole cookie, which only login writes, holds
\* MANAGER or SUPER_ADMIN whenever it is there; and the response body never
\* carries the tokens.
C30_LoginCookiesForAdminsOnly ==
    [][LoginPOST =>
         LET o == http'.outcome
             r == http'.response
         IN  /\ Admitted(o) =>
                   /\ cookieStore' = [accessToken |-> o.accessToken,
                                      refreshToken |-> o.refreshToken,
                                      adminRole |-> o.role]
                   /\ r.status = 200 /\ r.success
             /\ ~Admitted(o) =>
                   /\ cookieStore' = cookieStore
                   /\ r.status # 200 /\ ~r.success
             /\ (o.kind = "returns" /\ o.success /\ o.hasData /\ ~Admitted(o)) =>
                   r.status = 403
             /\ cookieStore'.adminRole \in {Undefined, MANAGER, SUPER_ADMIN}
             /\ r.accessToken = Undefined /\ r.refreshToken = Undefined
             /\ r.user \notin AccessTokens \cup RefreshTokens
    ]_vars

\* C30 witness: after a manager has logged in, a login of a plain user was
\* answered 403 and the manager's three cookies are as they were.
C30_Witness ==
    /\ http.route = "login"
    /\ http.outcome.kind = "returns" /\ http.outcome.success
    /\ http.outcome.role = USER
    /\ http.response.status = 403
    /\ cookieStore.adminRole = MANAGER
    /\ cookieStore.accessToken \in AccessTokens
    /\ cookieStore.refreshToken \in RefreshTokens

====
